---- MODULE Spec2Model ----
(***************************************************************************)
(* Takeoff N1 lookup-and-interpolation engine of Simbrief_to_IF:           *)
(* per-aircraft N1 tables (a223N1.py, b772N1.py, a388N1.py), the 1-D       *)
(* locator, the bilinear interpolator, the B777 derate scaling, the slider *)
(* mappings and the per-aircraft compute_takeoff_n1 entry points.          *)
(*                                                                         *)
(* Numbers.  A Python float is modelled as an exact rational <<n, d>> in   *)
(* lowest terms with d > 0; float("nan") is the pair <<0, 0>>.  Arithmetic *)
(* and comparisons follow IEEE-754 for NaN (every operation on NaN gives   *)
(* NaN, every comparison with NaN is false); rounding is not modelled.     *)
(* Python's None is the empty tuple.                                       *)
(***************************************************************************)
EXTENDS Integers, Sequences, FiniteSets, TLC

VARIABLES
    call,             \* which function of the repository is being called
    pc,               \* position inside the call
    axis, x, loc,     \* locate(axis, x): arguments and returned bracket
    aircraft,         \* aircraft module whose entry point is called
    mode,             \* compute_takeoff_n1: mode argument
    pressure_alt_ft,  \* compute_takeoff_n1: pressure_alt_ft argument
    oat_C,            \* compute_takeoff_n1: oat_C argument
    sel_temp_C,       \* compute_takeoff_n1: sel_temp_C argument (None or a number)
    mode_for_tables,  \* local of compute_takeoff_n1
    temp_for_calc,    \* local of compute_takeoff_n1
    n1,               \* n1 in n1_and_slider_*
    slider,           \* slider in n1_and_slider_*
    info,             \* compute_takeoff_from_info: the info dict
    flex_active,      \* compute_takeoff_from_info: local flex_active
    raised,           \* exception the call ended with ("" for none)
    result,           \* compute_takeoff_from_info: the returned dict
    tables,           \* the module-level axes and tables
    threads,          \* concurrent calls: position, arguments, returned pair
    frames            \* concurrent calls: the locals of each call's frame

\* the variables only compute_takeoff_from_info writes
dispatch_vars == << info, flex_active, raised, result >>

\* the module-level data and the variables only concurrent calls write
conc_vars == << tables, threads, frames >>

\* the variables of a single call
seq_vars == << call, pc, axis, x, loc, aircraft, mode, pressure_alt_ft, oat_C,
              sel_temp_C, mode_for_tables, temp_for_calc, n1, slider,
              info, flex_active, raised, result >>

vars == << call, pc, axis, x, loc, aircraft, mode, pressure_alt_ft, oat_C,
           sel_temp_C, mode_for_tables, temp_for_calc, n1, slider,
           info, flex_active, raised, result, tables, threads, frames >>

-----------------------------------------------------------------------------
(* Bounds of the model.                                                    *)

\* Every axis interval is queried at k/Sub of its width, k = 0 .. Sub-1.
Sub == 2

\* locate on arbitrary axes: strictly increasing axes of at most MaxAxisLen
\* elements drawn from 0 .. MaxAxisVal (besides the axes of the aircraft
\* modules).
MaxAxisLen == 3

MaxAxisVal == 4

\* Number of calls running concurrently.
MaxThreads == 2

\* The slider mappings are called on NaN and on every multiple of 1/Sub
\* from -1 to MaxN1 percent.
MaxN1 == 112

-----------------------------------------------------------------------------
(* Float arithmetic.                                                       *)

None == << >>

NaN == << 0, 0 >>

Abs(i) == IF i < 0 THEN -i ELSE i

RECURSIVE GCD(_, _)
GCD(a, b) == IF b = 0 THEN a ELSE GCD(b, a % b)

\* the float n/d, d # 0
Rat(n, d) ==
    LET s == IF d < 0 THEN -1 ELSE 1
        g == GCD(Abs(n), Abs(d))
    IN  << (s * n) \div g, (s * d) \div g >>

\* float(i) of an int
R(i) == << i, 1 >>

isnan(a) == a = NaN

FAdd(a, b) ==
    IF isnan(a) \/ isnan(b) THEN NaN
    ELSE Rat(a[1] * b[2] + b[1] * a[2], a[2] * b[2])

FSub(a, b) ==
    IF isnan(a) \/ isnan(b) THEN NaN
    ELSE Rat(a[1] * b[2] - b[1] * a[2], a[2] * b[2])

FMul(a, b) ==
    IF isnan(a) \/ isnan(b) THEN NaN
    ELSE Rat(a[1] * b[1], a[2] * b[2])

\* a / b; the callers guard b # 0 (Python raises ZeroDivisionError there)
FDiv(a, b) ==
    IF isnan(a) \/ isnan(b) THEN NaN
    ELSE Rat(a[1] * b[2], a[2] * b[1])

FLt(a, b) == ~isnan(a) /\ ~isnan(b) /\ a[1] * b[2] < b[1] * a[2]

FLe(a, b) == ~isnan(a) /\ ~isnan(b) /\ a[1] * b[2] <= b[1] * a[2]

FGt(a, b) == FLt(b, a)

FGe(a, b) == FLe(b, a)

\* Python ==: false whenever a NaN is involved
FEq(a, b) == ~isnan(a) /\ ~isnan(b) /\ a = b

\* builtin min(a, b): b replaces a only when b < a
min(a, b) == IF FLt(b, a) THEN b ELSE a

\* builtin max(a, b): b replaces a only when b > a
max(a, b) == IF FGt(b, a) THEN b ELSE a

-----------------------------------------------------------------------------
(* Axes and tables.  Cells are written in tenths of a percent; nan marks a *)
(* float("nan") cell.                                                      *)

nan == -1

TEMP_ROWS_C_A223 ==
    << -54, -50, -45, -40, -35, -30, -25, -20, -15, -10, -5, 0, 5, 10, 15, 20, 25, 30, 35, 40, 45, 53 >>

ALT_COLS_FT_A223 ==
    << -2000, 0, 1000, 2000, 3000, 4000, 6000, 8000, 10000, 12000, 14500 >>

N1_ROWS_A223_MAX ==
    (-54) :> << 736, 759, 765, 772, 778, 784, 795, 806, 816, 826, 837 >> @@
    (-50) :> << 742, 766, 772, 779, 785, 791, 803, 813, 824, 833, 844 >> @@
    (-45) :> << 751, 774, 781, 787, 793, 799, 811, 822, 833, 843, 854 >> @@
    (-40) :> << 759, 782, 789, 796, 802, 808, 820, 831, 842, 852, 863 >> @@
    (-35) :> << 767, 791, 797, 804, 810, 817, 829, 840, 851, 861, 872 >> @@
    (-30) :> << 774, 799, 806, 812, 819, 825, 837, 849, 859, 869, 881 >> @@
    (-25) :> << 782, 807, 814, 821, 827, 833, 846, 857, 868, 878, 890 >> @@
    (-20) :> << 790, 815, 822, 829, 835, 842, 854, 866, 877, 887, 898 >> @@
    (-15) :> << 798, 823, 830, 837, 843, 850, 862, 874, 885, 895, 907 >> @@
    (-10) :> << 805, 831, 838, 845, 851, 857, 870, 882, 891, 902, 916 >> @@
     (-5) :> << 813, 838, 846, 853, 859, 868, 879, 891, 902, 912, 924 >> @@
        0 :> << 820, 846, 853, 861, 867, 874, 887, 899, 910, 921, 933 >> @@
        5 :> << 828, 854, 861, 870, 875, 882, 895, 907, 918, 929, 933 >> @@
       10 :> << 835, 862, 869, 876, 883, 890, 903, 915, 926, 928, 927 >> @@
       15 :> << 843, 869, 877, 884, 891, 898, 911, 923, 920, 919, 920 >> @@
       20 :> << 850, 877, 884, 892, 899, 905, 915, 912, 910, 909, 910 >> @@
       25 :> << 857, 884, 892, 899, 903, 903, 902, 901, 897, 897, 898 >> @@
       30 :> << 865, 892, 892, 892, 892, 892, 891, 889, 885, 885, 887 >> @@
       35 :> << 868, 880, 880, 880, 880, 879, 878, 876, 874, 874, 875 >> @@
       40 :> << 856, 868, 868, 868, 876, 867, 866, 864, 864, 866, 861 >> @@
       45 :> << 842, 855, 855, 855, 855, 854, 854, 854, 854, 854, nan >> @@
       53 :> << 823, 836, 836, 834, 834, 834, 833, 832, nan, nan, nan >>

N1_ROWS_A223_TO1 ==
    (-54) :> << 708, 731, 737, 743, 749, 756, 766, 776, 785, 795, 805 >> @@
    (-50) :> << 714, 737, 743, 750, 756, 762, 773, 783, 792, 802, 812 >> @@
    (-45) :> << 723, 745, 752, 759, 765, 771, 782, 792, 801, 811, 821 >> @@
    (-40) :> << 736, 761, 768, 773, 778, 784, 796, 806, 812, 820, 830 >> @@
    (-35) :> << 736, 761, 767, 774, 780, 786, 798, 808, 812, 820, 830 >> @@
    (-30) :> << 743, 769, 776, 782, 789, 795, 807, 818, 822, 831, 840 >> @@
    (-25) :> << 753, 779, 784, 790, 798, 804, 816, 827, 831, 840, 849 >> @@
    (-20) :> << 766, 787, 794, 800, 811, 817, 829, 840, 842, 851, 860 >> @@
    (-15) :> << 769, 798, 806, 812, 818, 824, 837, 848, 852, 860, 869 >> @@
    (-10) :> << 775, 807, 814, 821, 828, 834, 846, 858, 861, 869, 878 >> @@
     (-5) :> << 782, 817, 821, 828, 836, 844, 855, 868, 871, 879, 888 >> @@
        0 :> << 790, 827, 830, 838, 845, 853, 866, 878, 880, 889, 898 >> @@
        5 :> << 797, 829, 832, 839, 846, 852, 864, 877, 880, 888, 897 >> @@
       10 :> << 804, 836, 843, 850, 856, 863, 875, 888, 890, 899, 908 >> @@
       15 :> << 811, 847, 852, 859, 865, 872, 883, 896, 898, 907, 916 >> @@
       20 :> << 817, 854, 860, 867, 874, 880, 892, 904, 906, 914, 922 >> @@
       25 :> << 825, 859, 865, 866, 873, 878, 887, 893, 897, 898, 902 >> @@
       30 :> << 834, 858, 862, 860, 868, 874, 879, 889, 885, 887, 887 >> @@
       35 :> << 843, 833, 832, 832, 832, 832, 832, 832, 871, 871, 872 >> @@
       40 :> << 833, 822, 823, 822, 822, 821, 821, 820, 864, 866, 865 >> @@
       45 :> << 811, 813, 823, 822, 822, 818, 817, 814, 854, 856, nan >> @@
       53 :> << 792, 805, 804, 803, 802, 801, 800, 796, nan, nan, nan >>

N1_ROWS_A223_TO2 ==
    (-54) :> << 681, 703, 715, 721, 727, 737, 747, 756, 766, 776, 785 >> @@
    (-50) :> << 687, 709, 716, 722, 727, 737, 745, 763, 773, 782, 795 >> @@
    (-45) :> << 699, 721, 730, 734, 742, 749, 757, 763, 770, 781, 794 >> @@
    (-40) :> << 709, 732, 743, 749, 756, 767, 766, 778, 789, 797, 807 >> @@
    (-35) :> << 719, 732, 745, 751, 757, 766, 766, 778, 789, 798, 807 >> @@
    (-30) :> << 725, 738, 752, 759, 766, 776, 776, 787, 798, 807, 816 >> @@
    (-25) :> << 724, 748, 756, 767, 774, 784, 784, 794, 804, 814, 824 >> @@
    (-20) :> << 717, 752, 754, 769, 778, 790, 789, 797, 802, 813, 824 >> @@
    (-15) :> << 710, 762, 767, 776, 788, 801, 801, 812, 822, 829, 840 >> @@
    (-10) :> << 720, 776, 781, 790, 797, 812, 814, 825, 836, 842, 854 >> @@
     (-5) :> << 730, 777, 790, 800, 809, 820, 826, 837, 848, 856, 862 >> @@
        0 :> << 752, 784, 797, 807, 814, 828, 836, 848, 858, 866, 872 >> @@
        5 :> << 778, 779, 791, 801, 808, 821, 830, 840, 852, 854, 870 >> @@
       10 :> << 798, 791, 802, 812, 817, 828, 836, 850, 862, 876, 867 >> @@
       15 :> << 821, 798, 804, 818, 823, 833, 840, 846, 864, 866, 864 >> @@
       20 :> << 847, 810, 814, 827, 832, 842, 854, 855, 854, 866, 866 >> @@
       25 :> << 872, 817, 827, 834, 837, 840, 845, 854, 854, 866, 860 >> @@
       30 :> << 892, 818, 827, 829, 827, 829, 833, 838, 850, 860, 860 >> @@
       35 :> << 908, 784, 788, 790, 793, 799, 806, 812, 820, 828, 830 >> @@
       40 :> << 920, 780, 784, 787, 788, 793, 797, 799, 809, 812, 816 >> @@
       45 :> << 770, 773, 777, 770, 776, 781, 787, 796, 781, 784, nan >> @@
       53 :> << 757, 773, 771, 770, 769, 768, 768, 766, nan, nan, nan >>

TEMP_ROWS_C_772 ==
    << -50, -40, -30, -20, -10, 0, 5, 10, 15, 20, 25, 30, 35, 40, 45, 50, 60 >>

\* faulty variant: a twelfth altitude column that no row has an entry for
ALT_COLS_FT_772_extra ==
    << -2000, 0, 1000, 2000, 3000, 4000, 5000, 6000, 7000, 8000, 9000, 10000 >>

ALT_COLS_FT_772 ==
    << -2000, 0, 1000, 2000, 3000, 4000, 5000, 6000, 7000, 8000, 9000 >>

N1_ROWS_777_MAX ==
    (-50) :> << 867, 889, 894, 899, 904, 909, 914, 920, 927, 931, 933 >> @@
    (-40) :> << 886, 909, 914, 919, 924, 929, 934, 940, 948, 951, 954 >> @@
    (-30) :> << 905, 928, 933, 939, 943, 948, 954, 960, 968, 971, 974 >> @@
    (-20) :> << 924, 947, 952, 958, 963, 968, 974, 979, 987, 991, 994 >> @@
    (-10) :> << 942, 965, 971, 977, 982, 997, 993, 999, 1007, 1011, 1014 >> @@
        0 :> << 960, 983, 989, 995, 1000, 1005, 1011, 1017, 1026, 1030, 1033 >> @@
        5 :> << 968, 992, 998, 1004, 1009, 1014, 1021, 1027, 1035, 1039, 1042 >> @@
       10 :> << 977, 1001, 1007, 1013, 1018, 1024, 1030, 1036, 1044, 1048, 1051 >> @@
       15 :> << 986, 1010, 1016, 1022, 1027, 1033, 1039, 1045, 1053, 1056, 1055 >> @@
       20 :> << 994, 1019, 1025, 1031, 1036, 1041, 1048, 1050, 1055, 1053, 1048 >> @@
       25 :> << 1002, 1027, 1034, 1040, 1042, 1043, 1045, 1046, 1046, 1042, 1037 >> @@
       30 :> << 1011, 1036, 1037, 1036, 1036, 1037, 1037, 1037, 1037, 1033, 1030 >> @@
       35 :> << 1016, 1031, 1031, 1031, 1031, 1032, 1031, 1032, 1031, 1027, 1024 >> @@
       40 :> << 1009, 1026, 1023, 1025, 1024, 1025, 1026, 1025, 1025, 1020, 1013 >> @@
       45 :> << 1001, 1014, 1013, 1013, 1014, 1013, 1013, 1013, 1013, nan, nan >> @@
       50 :> << 992, 999, 999, 998, 998, 999, nan, nan, nan, nan, nan >> @@
       60 :> << 966, 969, 969, 969, nan, nan, nan, nan, nan, nan, nan >>

ALT_COLS_FT_A380 ==
    << -2000, 0, 2000, 4000, 6000, 8000, 10000, 12000, 14000 >>

\* faulty variant: a mistyped axis value (-6 for -5) that no row is keyed by
TEMP_ROWS_C_A380_typo ==
    << -60, -10, -6, 0, 5, 10, 15, 20, 25, 30, 35, 40, 45, 50, 55, 60 >>

TEMP_ROWS_C_A380 ==
    << -60, -10, -5, 0, 5, 10, 15, 20, 25, 30, 35, 40, 45, 50, 55, 60 >>

N1_A380_MTO ==
    (-60) :> << 978, 976, 974, 972, 970, 967, 977, 981, 981 >> @@
    (-10) :> << 978, 976, 974, 972, 970, 967, 977, 981, 981 >> @@
     (-5) :> << 978, 976, 974, 972, 970, 967, 977, 981, 981 >> @@
        0 :> << 978, 976, 974, 972, 970, 967, 977, 981, 974 >> @@
        5 :> << 978, 976, 974, 972, 970, 967, 977, 968, 969 >> @@
       10 :> << 978, 976, 974, 972, 970, 967, 966, 966, 970 >> @@
       15 :> << 978, 976, 974, 972, 970, 966, 962, 959, 954 >> @@
       20 :> << 978, 976, 974, 972, 970, 964, 962, 959, 954 >> @@
       25 :> << 978, 976, 974, 972, 970, 963, 960, 958, 952 >> @@
       30 :> << 978, 976, 973, 971, 969, 962, 960, 957, nan >> @@
       35 :> << 978, 976, 974, 971, 969, 962, nan, nan, nan >> @@
       40 :> << 977, 975, 973, 970, 968, nan, nan, nan, nan >> @@
       45 :> << 978, 974, 972, 970, nan, nan, nan, nan, nan >> @@
       50 :> << 977, 976, 973, nan, nan, nan, nan, nan, nan >> @@
       55 :> << 977, nan, nan, nan, nan, nan, nan, nan, nan >> @@
       60 :> << nan, nan, nan, nan, nan, nan, nan, nan, nan >>

\* the module-level names of a223N1, b772N1 and a388N1 after import
ModuleTables ==
    [ TEMP_ROWS_C_A223 |-> TEMP_ROWS_C_A223,
      ALT_COLS_FT_A223 |-> ALT_COLS_FT_A223,
      N1_ROWS_A223_MAX |-> N1_ROWS_A223_MAX,
      N1_ROWS_A223_TO1 |-> N1_ROWS_A223_TO1,
      N1_ROWS_A223_TO2 |-> N1_ROWS_A223_TO2,
      TEMP_ROWS_C_772  |-> TEMP_ROWS_C_772,
      ALT_COLS_FT_772  |-> ALT_COLS_FT_772,
      N1_ROWS_777_MAX  |-> N1_ROWS_777_MAX,
      ALT_COLS_FT_A380 |-> ALT_COLS_FT_A380,
      TEMP_ROWS_C_A380 |-> TEMP_ROWS_C_A380,
      N1_A380_MTO      |-> N1_A380_MTO ]

\* rows[T][c] as a float (c is a 0-based column index)
Cell(rows, T, c) ==
    LET raw == rows[T][c + 1]
    IN  IF raw = nan THEN NaN ELSE Rat(raw, 10)

-----------------------------------------------------------------------------
(* Interpolation helpers (identical in a223N1, b772N1, a388N1 and          *)
(* utils.interpolation).  Indices are 0-based as in the source.            *)

\* faulty variant: the increment is added to y1, which carries the result
\* past the far end of the interval
interp1_from_y1(xq, x0, x1, y0, y1) ==
    IF FEq(x1, x0) THEN y0
    ELSE LET t == FDiv(FSub(xq, x0), FSub(x1, x0))
         IN  FAdd(y1, FMul(FSub(y1, y0), t))

\* faulty variant: also returns y0 when the query sits on x0
interp1_shortcut(xq, x0, x1, y0, y1) ==
    IF FEq(x1, x0) \/ FEq(xq, x0) THEN y0
    ELSE LET t == FDiv(FSub(xq, x0), FSub(x1, x0))
         IN  FAdd(y0, FMul(FSub(y1, y0), t))

interp1(xq, x0, x1, y0, y1) ==
    IF FEq(x1, x0) THEN y0
    ELSE LET t == FDiv(FSub(xq, x0), FSub(x1, x0))
         IN  FAdd(y0, FMul(FSub(y1, y0), t))

\* faulty variant: bisect_left, the first index whose element is >= xq
RECURSIVE bisect_left(_, _, _, _)
bisect_left(a, xq, lo, hi) ==
    IF lo < hi
    THEN LET mid == (lo + hi) \div 2
         IN  IF FLe(xq, R(a[mid + 1]))
             THEN bisect_left(a, xq, lo, mid)
             ELSE bisect_left(a, xq, mid + 1, hi)
    ELSE lo

\* bisect.bisect_right(a, xq, lo, hi): first index whose element is > xq
RECURSIVE bisect_right(_, _, _, _)
bisect_right(a, xq, lo, hi) ==
    IF lo < hi
    THEN LET mid == (lo + hi) \div 2
         IN  IF FLt(xq, R(a[mid + 1]))
             THEN bisect_right(a, xq, lo, mid)
             ELSE bisect_right(a, xq, mid + 1, hi)
    ELSE lo

\* faulty variant: the lower clamp tests xq < a[0]
locate_first_strict(a, xq) ==
    IF FLt(xq, R(a[1])) THEN << 0, 0, a[1], a[1] >>
    ELSE IF FGe(xq, R(a[Len(a)]))
         THEN LET j == Len(a) - 1 IN << j, j, a[j + 1], a[j + 1] >>
         ELSE LET i1 == bisect_right(a, xq, 0, Len(a))
                  i0 == i1 - 1
              IN  << i0, i1, a[i0 + 1], a[i1 + 1] >>

\* returns <<i0, i1, x0, x1>>
locate(a, xq) ==
    IF FLe(xq, R(a[1])) THEN << 0, 0, a[1], a[1] >>
    ELSE IF FGe(xq, R(a[Len(a)]))
         THEN LET j == Len(a) - 1 IN << j, j, a[j + 1], a[j + 1] >>
         ELSE LET i1 == bisect_right(a, xq, 0, Len(a))
                  i0 == i1 - 1
              IN  << i0, i1, a[i0 + 1], a[i1 + 1] >>

\* the four cells <<Q11, Q21, Q12, Q22>> fetched by _bilinear for the
\* brackets lt (temperature) and la (altitude)
Corners(rows, lt, la) ==
    << Cell(rows, lt[3], la[1]), Cell(rows, lt[3], la[2]),
       Cell(rows, lt[4], la[1]), Cell(rows, lt[4], la[2]) >>

\* faulty variant: the general case reads the corners transposed (Q12 for Q21)
Interpolate_transposed(Q, lt, la, A_ft, T_c) ==
    IF lt[4] = lt[3] /\ la[4] = la[3] THEN Q[1]
    ELSE IF lt[4] = lt[3] THEN interp1(A_ft, R(la[3]), R(la[4]), Q[1], Q[2])
    ELSE IF la[4] = la[3] THEN interp1(T_c, R(lt[3]), R(lt[4]), Q[1], Q[3])
    ELSE LET fA_T0 == interp1(A_ft, R(la[3]), R(la[4]), Q[1], Q[3])
             fA_T1 == interp1(A_ft, R(la[3]), R(la[4]), Q[2], Q[4])
         IN  interp1(T_c, R(lt[3]), R(lt[4]), fA_T0, fA_T1)

\* faulty variant: the branches for one degenerate bracket interpolate the wrong pair
Interpolate_wrongpair(Q, lt, la, A_ft, T_c) ==
    IF lt[4] = lt[3] /\ la[4] = la[3] THEN Q[1]
    ELSE IF lt[4] = lt[3] THEN interp1(A_ft, R(la[3]), R(la[4]), Q[1], Q[3])
    ELSE IF la[4] = la[3] THEN interp1(T_c, R(lt[3]), R(lt[4]), Q[1], Q[2])
    ELSE LET fA_T0 == interp1(A_ft, R(la[3]), R(la[4]), Q[1], Q[2])
             fA_T1 == interp1(A_ft, R(la[3]), R(la[4]), Q[3], Q[4])
         IN  interp1(T_c, R(lt[3]), R(lt[4]), fA_T0, fA_T1)

\* _bilinear / _bilinear_777 below the all-NaN guard: the degenerate cases
\* and the general case, for the corners Q and the brackets lt, la
Interpolate(Q, lt, la, A_ft, T_c) ==
    LET T0  == lt[3]
        T1  == lt[4]
        A0  == la[3]
        A1  == la[4]
        Q11 == Q[1]
        Q21 == Q[2]
        Q12 == Q[3]
        Q22 == Q[4]
    IN  IF T1 = T0 /\ A1 = A0 THEN Q11
        ELSE IF T1 = T0 THEN interp1(A_ft, R(A0), R(A1), Q11, Q21)
        ELSE IF A1 = A0 THEN interp1(T_c, R(T0), R(T1), Q11, Q12)
        ELSE LET fA_T0 == interp1(A_ft, R(A0), R(A1), Q11, Q21)
                 fA_T1 == interp1(A_ft, R(A0), R(A1), Q12, Q22)
             IN  interp1(T_c, R(T0), R(T1), fA_T0, fA_T1)

\* faulty variant: the all-NaN guard returns 0.0
Bilinear_zero(rows, TEMP_ROWS, ALT_COLS, A_ft, T_c) ==
    LET lt == locate(TEMP_ROWS, T_c)
        la == locate(ALT_COLS, A_ft)
        Q  == Corners(rows, lt, la)
    IN  IF \A i \in 1..4 : isnan(Q[i]) THEN R(0)
        ELSE Interpolate(Q, lt, la, A_ft, T_c)

\* _bilinear / _bilinear_777 with the module's axes passed in
Bilinear(rows, TEMP_ROWS, ALT_COLS, A_ft, T_c) ==
    LET lt == locate(TEMP_ROWS, T_c)
        la == locate(ALT_COLS, A_ft)
        Q  == Corners(rows, lt, la)
    IN  IF \A i \in 1..4 : isnan(Q[i]) THEN NaN
        ELSE Interpolate(Q, lt, la, A_ft, T_c)

\* the divisors x1 - x0 of the _interp1 calls _bilinear makes for the
\* brackets lt, la: a call whose x1 == x0 returns y0 before it divides
Interpolate_divisors(lt, la) ==
    LET T0 == R(lt[3])
        T1 == R(lt[4])
        A0 == R(la[3])
        A1 == R(la[4])
        overA == IF FEq(A1, A0) THEN { } ELSE { FSub(A1, A0) }
        overT == IF FEq(T1, T0) THEN { } ELSE { FSub(T1, T0) }
    IN  IF lt[4] = lt[3] /\ la[4] = la[3] THEN { }
        ELSE IF lt[4] = lt[3] THEN overA
        ELSE IF la[4] = la[3] THEN overT
        ELSE overA \cup overT

\* the exception a call of _bilinear / _bilinear_777 ends with, "" when it
\* returns: rows[T] raises KeyError for a key the dict lacks, row[i] raises
\* IndexError for an index outside -len(row) .. len(row) - 1, and a
\* division by 0.0 raises ZeroDivisionError
bilinear_raises(rows, TEMP_ROWS, ALT_COLS, A_ft, T_c) ==
    LET lt == locate(TEMP_ROWS, T_c)
        la == locate(ALT_COLS, A_ft)
    IN  IF \E T \in { lt[3], lt[4] } : T \notin DOMAIN rows THEN "KeyError"
        ELSE IF \E T \in { lt[3], lt[4] }, c \in { la[1], la[2] } :
                    c >= Len(rows[T]) \/ c < 0 - Len(rows[T])
        THEN "IndexError"
        ELSE IF (\E i \in 1..4 : ~isnan(Corners(rows, lt, la)[i]))
                /\ R(0) \in Interpolate_divisors(lt, la)
        THEN "ZeroDivisionError"
        ELSE ""

-----------------------------------------------------------------------------
(* utils/interpolation.py: the same helpers with the axes passed in, the   *)
(* altitude axis in thousands of feet.  Axes are sequences of floats.      *)

RECURSIVE utils_bisect_right(_, _, _, _)
utils_bisect_right(a, xq, lo, hi) ==
    IF lo < hi
    THEN LET mid == (lo + hi) \div 2
         IN  IF FLt(xq, a[mid + 1])
             THEN utils_bisect_right(a, xq, lo, mid)
             ELSE utils_bisect_right(a, xq, mid + 1, hi)
    ELSE lo

\* locate(axis, x): <<i0, i1, x0, x1>>
utils_locate(a, xq) ==
    IF FLe(xq, a[1]) THEN << 0, 0, a[1], a[1] >>
    ELSE IF FGe(xq, a[Len(a)])
         THEN LET j == Len(a) - 1 IN << j, j, a[j + 1], a[j + 1] >>
         ELSE LET i1 == utils_bisect_right(a, xq, 0, Len(a))
                  i0 == i1 - 1
              IN  << i0, i1, a[i0 + 1], a[i1 + 1] >>

\* faulty variant: the query altitude is used in feet
utils_bilinear_in_feet(table, A_ft, T_c, ALT_COLS, TEMP_ROWS) ==
    LET lt  == utils_locate(TEMP_ROWS, T_c)
        la  == utils_locate(ALT_COLS, A_ft)
        T0  == lt[3]
        T1  == lt[4]
        A0  == la[3]
        A1  == la[4]
        Q11 == Cell(table, T0[1], la[1])
        Q21 == Cell(table, T0[1], la[2])
        Q12 == Cell(table, T1[1], la[1])
        Q22 == Cell(table, T1[1], la[2])
    IN  IF FEq(A1, A0) /\ FEq(T1, T0) THEN Q11
        ELSE IF FEq(A1, A0) THEN interp1(T_c, T0, T1, Q11, Q12)
        ELSE IF FEq(T1, T0) THEN interp1(A_ft, A0, A1, Q11, Q21)
        ELSE LET fA_T0 == interp1(A_ft, A0, A1, Q11, Q21)
                 fA_T1 == interp1(A_ft, A0, A1, Q12, Q22)
             IN  interp1(T_c, T0, T1, fA_T0, fA_T1)

\* bilinear(table, A_ft, T_c, ALT_COLS, TEMP_ROWS); a row key is the integer
\* the temperature axis value equals
utils_bilinear(table, A_ft, T_c, ALT_COLS, TEMP_ROWS) ==
    LET A_k == FDiv(A_ft, R(1000))
        lt  == utils_locate(TEMP_ROWS, T_c)
        la  == utils_locate(ALT_COLS, A_k)
        T0  == lt[3]
        T1  == lt[4]
        A0  == la[3]
        A1  == la[4]
        Q11 == Cell(table, T0[1], la[1])
        Q21 == Cell(table, T0[1], la[2])
        Q12 == Cell(table, T1[1], la[1])
        Q22 == Cell(table, T1[1], la[2])
    IN  IF FEq(A1, A0) /\ FEq(T1, T0) THEN Q11
        ELSE IF FEq(A1, A0) THEN interp1(T_c, T0, T1, Q11, Q12)
        ELSE IF FEq(T1, T0) THEN interp1(A_k, A0, A1, Q11, Q21)
        ELSE LET fA_T0 == interp1(A_k, A0, A1, Q11, Q21)
                 fA_T1 == interp1(A_k, A0, A1, Q12, Q22)
             IN  interp1(T_c, T0, T1, fA_T0, fA_T1)

-----------------------------------------------------------------------------
(* Mode strings.  str.upper() and the substring test are tabulated over    *)
(* the mode strings the model draws.                                       *)

Modes == { "MAX", "TO1", "TO2", "D-TO1", "D-TO2", "FLEX", "to2", "TOGA", "" }

upper(s) == IF s = "to2" THEN "TO2" ELSE s

\* sub in s, for sub in {"TO1", "TO2", "FLEX"} and upper-cased s
contains(s, sub) ==
    \/ s = sub
    \/ s = "D-TO1" /\ sub = "TO1"
    \/ s = "D-TO2" /\ sub = "TO2"

\* Python truthiness of a mode argument (None and "" are both written "")
truthy_str(s) == s # ""

\* Python truthiness of an optional float
truthy_num(v) == v # None /\ v # R(0)

-----------------------------------------------------------------------------
(* a223N1.py                                                               *)

n1_a223_max(A_ft, T_c) ==
    Bilinear(N1_ROWS_A223_MAX, TEMP_ROWS_C_A223, ALT_COLS_FT_A223, A_ft, T_c)

n1_a223_to1(A_ft, T_c) ==
    Bilinear(N1_ROWS_A223_TO1, TEMP_ROWS_C_A223, ALT_COLS_FT_A223, A_ft, T_c)

n1_a223_to2(A_ft, T_c) ==
    Bilinear(N1_ROWS_A223_TO2, TEMP_ROWS_C_A223, ALT_COLS_FT_A223, A_ft, T_c)

\* faulty variant: a mode that names no table gives an undefined N1
n1_a223_unknown_undefined(A_ft, T_c, m) ==
    LET mode_up == upper(IF truthy_str(m) THEN m ELSE "")
    IN  IF contains(mode_up, "TO2") THEN n1_a223_to2(A_ft, T_c)
        ELSE IF contains(mode_up, "TO1") THEN n1_a223_to1(A_ft, T_c)
        ELSE IF mode_up \in { "MAX", "FLEX", "" } THEN n1_a223_max(A_ft, T_c)
        ELSE NaN

\* faulty variant: TO1 is tested before TO2 and the two tables are exchanged
n1_a223_tables_exchanged(A_ft, T_c, m) ==
    LET mode_up == upper(IF truthy_str(m) THEN m ELSE "")
    IN  IF contains(mode_up, "TO1") THEN n1_a223_to2(A_ft, T_c)
        ELSE IF contains(mode_up, "TO2") THEN n1_a223_to1(A_ft, T_c)
        ELSE n1_a223_max(A_ft, T_c)

n1_a223(A_ft, T_c, m) ==
    LET mode_up == upper(IF truthy_str(m) THEN m ELSE "")
    IN  IF contains(mode_up, "TO2") THEN n1_a223_to2(A_ft, T_c)
        ELSE IF contains(mode_up, "TO1") THEN n1_a223_to1(A_ft, T_c)
        ELSE n1_a223_max(A_ft, T_c)

\* faulty variant: the calibration pair of the B777 module (20, 107)
slider_a223_with_772_pair(n1_percent) ==
    IF isnan(n1_percent) THEN NaN
    ELSE LET n1_clamped == max(R(20), min(R(107), n1_percent))
             s == FMul(FDiv(FSub(n1_clamped, R(20)), R(87)), R(100))
         IN  max(R(0), min(R(100), s))

\* faulty variant: divides by the N1 at slider 100 instead of by the span
slider_a223_over_hi(n1_percent) ==
    IF isnan(n1_percent) THEN NaN
    ELSE LET n1_clamped == max(R(20), min(R(101), n1_percent))
             s == FMul(FDiv(FSub(n1_clamped, R(20)), R(101)), R(100))
         IN  max(R(0), min(R(100), s))

slider_from_n1_a223(n1_percent) ==
    IF isnan(n1_percent) THEN NaN
    ELSE LET n1_clamped == max(R(20), min(R(101), n1_percent))
             s == FMul(FDiv(FSub(n1_clamped, R(20)), R(81)), R(100))
         IN  max(R(0), min(R(100), s))

n1_and_slider_a223(m, A_ft, T_c) ==
    LET n == n1_a223(A_ft, T_c, m)
    IN  << n, slider_from_n1_a223(n) >>

-----------------------------------------------------------------------------
(* b772N1.py                                                               *)

n1_772_max(A_ft, T_c) ==
    Bilinear(N1_ROWS_777_MAX, TEMP_ROWS_C_772, ALT_COLS_FT_772, A_ft, T_c)

\* faulty variant: an undefined full-rated N1 falls back to idle
apply_derate_idle(n1_max, m) ==
    LET mode_up == upper(IF truthy_str(m) THEN m ELSE "")
        factor  == IF mode_up \in { "TO1", "D-TO1" } THEN Rat(9, 10)
                   ELSE IF mode_up \in { "TO2", "D-TO2" } THEN Rat(8, 10)
                   ELSE R(1)
    IN  IF isnan(n1_max) THEN R(20)
        ELSE FAdd(R(20), FMul(FSub(n1_max, R(20)), factor))

\* faulty variant: the factors of the two derates are exchanged
apply_derate_swapped(n1_max, m) ==
    LET mode_up == upper(IF truthy_str(m) THEN m ELSE "")
        factor  == IF mode_up \in { "TO1", "D-TO1" } THEN Rat(8, 10)
                   ELSE IF mode_up \in { "TO2", "D-TO2" } THEN Rat(9, 10)
                   ELSE R(1)
    IN  IF isnan(n1_max) THEN n1_max
        ELSE FAdd(R(20), FMul(FSub(n1_max, R(20)), factor))

\* faulty variant: the factor scales the whole N1, not the margin above idle
apply_derate_whole(n1_max, m) ==
    LET mode_up == upper(IF truthy_str(m) THEN m ELSE "")
        factor  == IF mode_up \in { "TO1", "D-TO1" } THEN Rat(9, 10)
                   ELSE IF mode_up \in { "TO2", "D-TO2" } THEN Rat(8, 10)
                   ELSE R(1)
    IN  IF isnan(n1_max) THEN n1_max
        ELSE FMul(n1_max, factor)

apply_derate_from_max(n1_max, m) ==
    LET mode_up == upper(IF truthy_str(m) THEN m ELSE "")
        factor  == IF mode_up \in { "TO1", "D-TO1" } THEN Rat(9, 10)
                   ELSE IF mode_up \in { "TO2", "D-TO2" } THEN Rat(8, 10)
                   ELSE R(1)
    IN  IF isnan(n1_max) THEN n1_max
        ELSE FAdd(R(20), FMul(FSub(n1_max, R(20)), factor))

n1_772(A_ft, T_c, m) ==
    apply_derate_from_max(n1_772_max(A_ft, T_c), m)

\* faulty variant: no isnan guard before the clamps
slider_772_unguarded(n1_percent) ==
    LET n1_clamped == max(R(20), min(R(107), n1_percent))
        s == FMul(FDiv(FSub(n1_clamped, R(20)), R(87)), R(100))
    IN  max(R(0), min(R(100), s))

slider_from_n1_772(n1_percent) ==
    IF isnan(n1_percent) THEN NaN
    ELSE LET n1_clamped == max(R(20), min(R(107), n1_percent))
             s == FMul(FDiv(FSub(n1_clamped, R(20)), R(87)), R(100))
         IN  max(R(0), min(R(100), s))

\* faulty variant: the slider is taken from the full-rated N1, before the derate
n1_and_slider_772_prederate(m, A_ft, T_c) ==
    << n1_772(A_ft, T_c, m), slider_from_n1_772(n1_772_max(A_ft, T_c)) >>

n1_and_slider_772(m, A_ft, T_c) ==
    LET n == n1_772(A_ft, T_c, m)
    IN  << n, slider_from_n1_772(n) >>

-----------------------------------------------------------------------------
(* a388N1.py                                                               *)

n1_a380_mto(A_ft, T_c) ==
    Bilinear(N1_A380_MTO, TEMP_ROWS_C_A380, ALT_COLS_FT_A380, A_ft, T_c)

\* faulty variant: neither the N1 nor the slider is clamped
slider_a380_unclamped(n1_percent) ==
    IF isnan(n1_percent) THEN NaN
    ELSE FMul(FDiv(FSub(n1_percent, R(17)), R(94)), R(100))

slider_from_n1_a380(n1_percent) ==
    IF isnan(n1_percent) THEN NaN
    ELSE LET n1_clamped == max(R(17), min(R(111), n1_percent))
             s == FMul(FDiv(FSub(n1_clamped, R(17)), R(94)), R(100))
         IN  max(R(0), min(R(100), s))

n1_and_slider_a380(m, A_ft, T_c) ==
    LET n == n1_a380_mto(A_ft, T_c)
    IN  << n, slider_from_n1_a380(n) >>


-----------------------------------------------------------------------------
(* utils/slider_math.py                                                    *)

n1_to_slider(n1_percent) ==
    LET s == FMul(FDiv(FSub(n1_percent, R(20)), R(81)), R(100))
    IN  min(max(s, R(0)), R(100))

-----------------------------------------------------------------------------
(* compute_takeoff_n1 of the three aircraft modules: the mode and          *)
(* temperature handed to the core function.  packs_on and eng_anti_ice_on  *)
(* are normalised and then ignored by every core function.                 *)

Aircraft == { "A220-300", "B777-200ER", "A380-800" }

\* <<mode_for_tables, temp_for_calc>>
entry_a223(m, oat, sel) ==
    LET mode0 == upper(IF truthy_str(m) THEN m ELSE "MAX")
    IN  IF mode0 = "FLEX" /\ truthy_num(sel)
        THEN << "MAX", sel >> ELSE << mode0, oat >>

\* faulty variant: an assumed temperature is substituted in every mode
entry_772_any_mode(m, oat, sel) ==
    LET mode0 == upper(IF truthy_str(m) THEN m ELSE "MAX")
    IN  IF sel # None
        THEN << "MAX", sel >> ELSE << mode0, oat >>

entry_772(m, oat, sel) ==
    LET mode0 == upper(IF truthy_str(m) THEN m ELSE "MAX")
    IN  IF mode0 = "FLEX" /\ sel # None
        THEN << "MAX", sel >> ELSE << mode0, oat >>

\* faulty variant: the A380 entry point honours FLEX like the B777's
entry_a380_flex(m, oat, sel) ==
    LET mode0 == upper(IF truthy_str(m) THEN m ELSE "MAX")
    IN  IF mode0 = "FLEX" /\ sel # None
        THEN << "MAX", sel >> ELSE << "MAX", oat >>

entry_a380(m, oat, sel) == << "MAX", oat >>

-----------------------------------------------------------------------------
(* utils/simbrief_parser.py and utils/n1_dispatcher.py.  The module of the *)
(* B737 MAX 8 (b737max8N1) and the optional b773N1 are not part of the     *)
(* sources; the model never dispatches to them.                            *)

\* a key the info dict does not hold
Absent == << "absent" >>

\* info.get(key)
get(v) == IF v = Absent THEN None ELSE v

\* info.get(key, default)
get_default(v, default) == IF v = Absent THEN default ELSE v

is_flex_active(oat, sel, mode_raw) ==
    IF truthy_str(mode_raw) /\ contains(upper(mode_raw), "FLEX") THEN TRUE
    ELSE IF oat # None /\ sel # None
         THEN FGt(sel, FAdd(oat, Rat(9, 10)))
         ELSE FALSE

SUPPORTED_AIRCRAFT == { "B737 MAX 8", "B777-200ER", "A220-300", "A380-800" }

\* the module whose compute function is returned, or the exception raised
select_n1_function(ac) ==
    CASE ac = "B737 MAX 8" -> "b737max8N1"
      [] ac = "B777-200ER" -> "b772N1"
      [] ac = "B777-300ER" -> "ValueError"
      [] ac = "A220-300"   -> "a223N1"
      [] ac = "A380-800"   -> "a388N1"
      [] OTHER             -> "ValueError"

\* faulty variant: an aircraft outside the supported set gets the B777-200ER
\* module
n1_func_default(ac) ==
    IF ac \notin SUPPORTED_AIRCRAFT THEN "b772N1"
    ELSE select_n1_function(ac)

\* compute_takeoff_from_info up to n1_func: the membership test and the
\* selection
n1_func(ac) ==
    IF ac \notin SUPPORTED_AIRCRAFT THEN "ValueError"
    ELSE select_n1_function(ac)

\* the module that holds an aircraft's tables and compute_takeoff_n1
ModuleOf(ac) ==
    CASE ac = "A220-300"   -> "a223N1"
      [] ac = "B777-200ER" -> "b772N1"
      [] ac = "A380-800"   -> "a388N1"

\* the exception the core function of a module ends with for the mode and
\* temperature its entry point hands it, "" when it returns its pair
core_raises(module, m, A_ft, T_c) ==
    CASE module = "a223N1" ->
           LET mode_up == upper(IF truthy_str(m) THEN m ELSE "")
               rows == IF contains(mode_up, "TO2") THEN N1_ROWS_A223_TO2
                       ELSE IF contains(mode_up, "TO1") THEN N1_ROWS_A223_TO1
                       ELSE N1_ROWS_A223_MAX
           IN  bilinear_raises(rows, TEMP_ROWS_C_A223, ALT_COLS_FT_A223, A_ft, T_c)
      [] module = "b772N1" ->
           bilinear_raises(N1_ROWS_777_MAX, TEMP_ROWS_C_772, ALT_COLS_FT_772, A_ft, T_c)
      [] module = "a388N1" ->
           bilinear_raises(N1_A380_MTO, TEMP_ROWS_C_A380, ALT_COLS_FT_A380, A_ft, T_c)

\* the entry point of a module up to the call of its core function:
\* <<mode_for_tables, temp_for_calc>>
entry_of(module, m, oat, sel) ==
    CASE module = "a223N1" -> entry_a223(m, oat, sel)
      [] module = "b772N1" -> entry_772(m, oat, sel)
      [] module = "a388N1" -> entry_a380(m, oat, sel)

\* the core function of a module: <<n1, slider>>
n1_and_slider_of(module, m, A_ft, T_c) ==
    CASE module = "a223N1" -> n1_and_slider_a223(m, A_ft, T_c)
      [] module = "b772N1" -> n1_and_slider_772(m, A_ft, T_c)
      [] module = "a388N1" -> n1_and_slider_a380(m, A_ft, T_c)

\* the core call for the entry point's pair e and what the entry point
\* returns: <<mode_for_tables, temp_for_calc, n1, slider, exception>>; an
\* exception leaves no pair
core_call(module, e, f, alt) ==
    IF f = "" THEN e \o n1_and_slider_of(module, e[1], alt, e[2]) \o << "" >>
    ELSE e \o << None, None, f >>

core_call_of(module, e, alt) ==
    core_call(module, e, core_raises(module, e[1], alt, e[2]), alt)

\* the call compute_takeoff_n1(pressure_alt_ft, oat_C, mode, ..., sel_temp_C)
\* of a module
call_n1_func(module, alt, oat, m, sel) ==
    core_call_of(module, entry_of(module, m, oat, sel), alt)

-----------------------------------------------------------------------------
(* Inputs drawn by the model.                                              *)

\* query points on an axis: one below, one above, every axis value and the
\* points at k/Sub of every interval
AxisQueries(a) ==
    { R(a[1] - 1), R(a[Len(a)]), R(a[Len(a)] + 1) } \cup
    { Rat(Sub * a[i] + k * (a[i + 1] - a[i]), Sub) :
        i \in 1 .. (Len(a) - 1), k \in 0 .. (Sub - 1) }

StrictlyIncreasing(a) == \A i \in 1 .. (Len(a) - 1) : a[i] < a[i + 1]

IncAxes ==
    { a \in UNION { [1 .. n -> 0 .. MaxAxisVal] : n \in 1 .. MaxAxisLen } :
        StrictlyIncreasing(a) }

\* the axes the aircraft modules hand to _locate
ProgramAxes ==
    { TEMP_ROWS_C_A223, ALT_COLS_FT_A223, TEMP_ROWS_C_772, ALT_COLS_FT_772,
      TEMP_ROWS_C_A380, ALT_COLS_FT_A380 }

TempAxisOf(ac) ==
    CASE ac = "A220-300"   -> TEMP_ROWS_C_A223
      [] ac = "B777-200ER" -> TEMP_ROWS_C_772
      [] ac = "A380-800"   -> TEMP_ROWS_C_A380

AltAxisOf(ac) ==
    CASE ac = "A220-300"   -> ALT_COLS_FT_A223
      [] ac = "B777-200ER" -> ALT_COLS_FT_772
      [] ac = "A380-800"   -> ALT_COLS_FT_A380

\* the tables of a module, by the mode that selects them
TableOf(ac, m) ==
    CASE ac = "A220-300" ->
           IF m = "TO2" THEN N1_ROWS_A223_TO2
           ELSE IF m = "TO1" THEN N1_ROWS_A223_TO1
           ELSE N1_ROWS_A223_MAX
      [] ac = "B777-200ER" -> N1_ROWS_777_MAX
      [] ac = "A380-800"   -> N1_A380_MTO

\* an axis as the list of floats handed to utils.interpolation, its values
\* divided by per
AxisPer(a, per) == [ i \in 1 .. Len(a) |-> Rat(a[i], per) ]

\* assumed temperatures offered to compute_takeoff_n1
SelTemps == { None, R(0), R(47) }

\* aircraft keys handed to compute_takeoff_from_info: the supported ones
\* whose modules are in the sources and three unsupported ones
DispatchAircraft == Aircraft \cup { "B777-300ER", "A320neo", "" }

\* info dicts handed to compute_takeoff_from_info ("" stands for None or
\* an absent key where a mode string is expected)
Infos ==
    [ pressure_alt_ft : { Absent, None, R(1500), R(13000) },
      elevation_ft    : { Absent, None, R(3000) },
      oat_C           : { R(12), Rat(93, 2) },
      mode_raw        : { "", "FLEX", "D-TO2", "TO" },
      mode_normalized : { "", "MAX", "TO1", "TO2", "FLEX" },
      sel_temp_C      : SelTemps ]

\* N1 values offered to the slider mappings (60.5 is the specification's
\* example)
N1Queries ==
    { NaN, Rat(121, 2) } \cup { Rat(k, Sub) : k \in (0 - Sub) .. (MaxN1 * Sub) }

-----------------------------------------------------------------------------
(* State machine: one call of locate, of an aircraft module's              *)
(* compute_takeoff_n1, of an aircraft module's slider_from_n1_* or of      *)
(* utils.slider_math.n1_to_slider, from its arguments to its return value. *)
(* The locals mode_for_tables and temp_for_calc keep their values after    *)
(* the return.                                                             *)

InitLocate ==
    /\ call = "locate"
    /\ pc = "call"
    /\ axis \in IncAxes \cup ProgramAxes
    /\ x \in AxisQueries(axis)
    /\ loc = None
    /\ aircraft = ""
    /\ mode = ""
    /\ pressure_alt_ft = None
    /\ oat_C = None
    /\ sel_temp_C = None
    /\ mode_for_tables = ""
    /\ temp_for_calc = None
    /\ n1 = None
    /\ slider = None
    /\ info = None
    /\ flex_active = FALSE
    /\ raised = ""
    /\ result = None
    /\ tables = ModuleTables
    /\ threads = << >>
    /\ frames = << >>

InitCompute ==
    /\ call = "compute_takeoff_n1"
    /\ pc = "call"
    /\ axis = << >>
    /\ x = None
    /\ loc = None
    /\ aircraft \in Aircraft
    /\ mode \in Modes
    /\ pressure_alt_ft \in AxisQueries(AltAxisOf(aircraft))
    /\ oat_C \in AxisQueries(TempAxisOf(aircraft))
    /\ sel_temp_C \in SelTemps
    /\ mode_for_tables = ""
    /\ temp_for_calc = None
    /\ n1 = None
    /\ slider = None
    /\ info = None
    /\ flex_active = FALSE
    /\ raised = ""
    /\ result = None
    /\ tables = ModuleTables
    /\ threads = << >>
    /\ frames = << >>

\* slider_from_n1_a223 / _772 / _a380 (aircraft names the module) or
\* n1_to_slider: n1 is the argument n1_percent
InitSlider ==
    /\ call \in { "slider_from_n1", "n1_to_slider" }
    /\ pc = "call"
    /\ axis = << >>
    /\ x = None
    /\ loc = None
    /\ aircraft \in (IF call = "slider_from_n1" THEN Aircraft ELSE { "" })
    /\ mode = ""
    /\ pressure_alt_ft = None
    /\ oat_C = None
    /\ sel_temp_C = None
    /\ mode_for_tables = ""
    /\ temp_for_calc = None
    /\ n1 \in N1Queries
    /\ slider = None
    /\ info = None
    /\ flex_active = FALSE
    /\ raised = ""
    /\ result = None
    /\ tables = ModuleTables
    /\ threads = << >>
    /\ frames = << >>

InitDispatch ==
    /\ call = "compute_takeoff_from_info"
    /\ pc = "call"
    /\ axis = << >>
    /\ x = None
    /\ loc = None
    /\ aircraft \in DispatchAircraft
    /\ mode = ""
    /\ pressure_alt_ft = None
    /\ oat_C = None
    /\ sel_temp_C = None
    /\ mode_for_tables = ""
    /\ temp_for_calc = None
    /\ n1 = None
    /\ slider = None
    /\ info \in Infos
    /\ flex_active = FALSE
    /\ raised = ""
    /\ result = None
    /\ tables = ModuleTables
    /\ threads = << >>
    /\ frames = << >>

\* utils.interpolation.bilinear called with a module's table (aircraft and
\* mode_for_tables name it), its temperature axis and its altitude axis in
\* thousands of feet
InitBilinear ==
    /\ call = "bilinear"
    /\ pc = "call"
    /\ axis = << >>
    /\ x = None
    /\ loc = None
    /\ aircraft \in Aircraft
    /\ mode = ""
    /\ pressure_alt_ft \in AxisQueries(AltAxisOf(aircraft))
    /\ oat_C = None
    /\ sel_temp_C = None
    /\ mode_for_tables \in (IF aircraft = "A220-300" THEN { "MAX", "TO1", "TO2" } ELSE { "MAX" })
    /\ temp_for_calc \in AxisQueries(TempAxisOf(aircraft))
    /\ n1 = None
    /\ slider = None
    /\ info = None
    /\ flex_active = FALSE
    /\ raised = ""
    /\ result = None
    /\ tables = ModuleTables
    /\ threads = << >>
    /\ frames = << >>

Init == InitLocate \/ InitCompute \/ InitSlider \/ InitDispatch \/ InitBilinear

Locate ==
    /\ call = "locate"
    /\ pc = "call"
    /\ loc' = locate(axis, x)
    /\ pc' = "done"
    /\ UNCHANGED << call, axis, x, aircraft, mode, pressure_alt_ft, oat_C,
                    sel_temp_C, mode_for_tables, temp_for_calc, n1, slider >>
    /\ UNCHANGED dispatch_vars
    /\ UNCHANGED conc_vars

\* compute_takeoff_n1: the mode and temperature for the tables, the call of
\* the core function n1_and_slider_* and the return of its pair
ComputeTakeoffN1 ==
    /\ call = "compute_takeoff_n1"
    /\ pc = "call"
    /\ \E o \in { call_n1_func(ModuleOf(aircraft), pressure_alt_ft, oat_C, mode, sel_temp_C) } :
           /\ mode_for_tables' = o[1]
           /\ temp_for_calc' = o[2]
           /\ n1' = o[3]
           /\ slider' = o[4]
           /\ raised' = o[5]
    /\ pc' = "done"
    /\ UNCHANGED << call, axis, x, loc, aircraft, mode, pressure_alt_ft, oat_C,
                    sel_temp_C, info, flex_active, result >>
    /\ UNCHANGED conc_vars

SliderFromN1 ==
    /\ call = "slider_from_n1"
    /\ pc = "call"
    /\ slider' = CASE aircraft = "A220-300"   -> slider_from_n1_a223(n1)
                   [] aircraft = "B777-200ER" -> slider_from_n1_772(n1)
                   [] aircraft = "A380-800"   -> slider_from_n1_a380(n1)
    /\ pc' = "done"
    /\ UNCHANGED << call, axis, x, loc, aircraft, mode, pressure_alt_ft, oat_C,
                    sel_temp_C, mode_for_tables, temp_for_calc, n1 >>
    /\ UNCHANGED dispatch_vars
    /\ UNCHANGED conc_vars

N1ToSlider ==
    /\ call = "n1_to_slider"
    /\ pc = "call"
    /\ slider' = n1_to_slider(n1)
    /\ pc' = "done"
    /\ UNCHANGED << call, axis, x, loc, aircraft, mode, pressure_alt_ft, oat_C,
                    sel_temp_C, mode_for_tables, temp_for_calc, n1 >>
    /\ UNCHANGED dispatch_vars
    /\ UNCHANGED conc_vars

\* the dict compute_takeoff_from_info returns
result_dict(ac, n1p, sliderp, mode_raw, mode_norm, flex, oat, alt, sel) ==
    [ aircraft |-> ac,
      N1_percent |-> n1p,
      IF_slider_percent |-> sliderp,
      thrust_mode_raw |-> IF truthy_str(mode_raw) THEN mode_raw ELSE mode_norm,
      thrust_mode_normalized |-> mode_norm,
      flex_active |-> flex,
      oat_C |-> oat,
      pressure_alt_ft |-> alt,
      sel_temp_C |-> sel ]

\* compute_takeoff_from_info from the return of the aircraft function on:
\* r is what the call gave, a the arguments it was called with
after_call(r, ac, inf, a, flex) ==
    IF r[5] # ""
    THEN [ raised |-> r[5], flex_active |-> flex, args |-> a,
           ret |-> << r[1], r[2], None, None >>, result |-> None ]
    ELSE [ raised |-> "", flex_active |-> flex, args |-> a,
           ret |-> << r[1], r[2], r[3], r[4] >>,
           result |-> result_dict(ac, r[3], r[4], inf.mode_raw, IF truthy_str(inf.mode_normalized) THEN inf.mode_normalized ELSE "MAX", flex, a[2], a[1], get(inf.sel_temp_C)) ]

\* compute_takeoff_from_info(info, aircraft): the exception raised, the
\* locals, the arguments handed to the aircraft function (args), what that
\* call computed (ret) and the returned dict.  A None altitude makes the
\* aircraft function's _locate raise TypeError.  The keys of the result
\* that are copied from info unread (airport, runway, flaps, speeds) and the
\* packs and anti-ice flags, which no aircraft function uses, are left out.
compute_takeoff_from_info(inf, ac) ==
    LET module    == n1_func(ac)
        alt0      == get(inf.pressure_alt_ft)
        alt       == IF alt0 = None
                     THEN get_default(inf.elevation_ft, R(0)) ELSE alt0
        oat       == get(inf.oat_C)
        mode_raw  == inf.mode_raw
        mode_norm == IF truthy_str(inf.mode_normalized)
                     THEN inf.mode_normalized ELSE "MAX"
        sel       == get(inf.sel_temp_C)
        flex      == is_flex_active(oat, sel, mode_raw)
        calc_mode == IF ac = "A380-800" THEN "MAX" ELSE mode_norm
        calc_sel_temp ==
            IF ac = "A380-800" THEN None
            ELSE IF flex THEN sel ELSE None
    IN  IF module = "ValueError"
        THEN [ raised |-> "ValueError", flex_active |-> FALSE,
               args |-> << None, None, "", None >>,
               ret |-> << "", None, None, None >>, result |-> None ]
        ELSE IF alt = None
        THEN [ raised |-> "TypeError", flex_active |-> flex,
               args |-> << alt, oat, calc_mode, calc_sel_temp >>,
               ret |-> << "", None, None, None >>, result |-> None ]
        ELSE after_call(call_n1_func(module, alt, oat, calc_mode, calc_sel_temp), ac, inf, << alt, oat, calc_mode, calc_sel_temp >>, flex)

\* one call of compute_takeoff_from_info; what the call never reached keeps
\* its initial value
ComputeTakeoffFromInfo ==
    /\ call = "compute_takeoff_from_info"
    /\ pc = "call"
    /\ pc' = "done"
    /\ \E o \in { compute_takeoff_from_info(info, aircraft) } :
           /\ raised' = o.raised
           /\ flex_active' = o.flex_active
           /\ pressure_alt_ft' = o.args[1]
           /\ oat_C' = o.args[2]
           /\ mode' = o.args[3]
           /\ sel_temp_C' = o.args[4]
           /\ mode_for_tables' = o.ret[1]
           /\ temp_for_calc' = o.ret[2]
           /\ n1' = o.ret[3]
           /\ slider' = o.ret[4]
           /\ result' = o.result
    /\ UNCHANGED << call, axis, x, loc, aircraft, info >>
    /\ UNCHANGED conc_vars

\* one call of utils.interpolation.bilinear: n1 is the value it returns
UtilsBilinear ==
    /\ call = "bilinear"
    /\ pc = "call"
    /\ n1' = utils_bilinear(TableOf(aircraft, mode_for_tables), pressure_alt_ft, temp_for_calc, AxisPer(AltAxisOf(aircraft), 1000), AxisPer(TempAxisOf(aircraft), 1))
    /\ pc' = "done"
    /\ UNCHANGED << call, axis, x, loc, aircraft, mode, pressure_alt_ft, oat_C,
                    sel_temp_C, mode_for_tables, temp_for_calc, slider >>
    /\ UNCHANGED dispatch_vars
    /\ UNCHANGED conc_vars

Next ==
    \/ Locate
    \/ ComputeTakeoffN1
    \/ SliderFromN1
    \/ N1ToSlider
    \/ ComputeTakeoffFromInfo
    \/ UtilsBilinear

Spec == Init /\ [][Next]_vars

-----------------------------------------------------------------------------
(* Concurrent calls.  Each thread runs one call of an aircraft module's    *)
(* compute_takeoff_n1, directly or through compute_takeoff_from_info, one  *)
(* statement group at a time; the threads interleave freely.  A call's     *)
(* locals live in its own frame; the axes and tables are the module-level  *)
(* names every call reads.                                                 *)

Threads == 1 .. MaxThreads

\* requests the threads draw: direct calls <<pressure_alt_ft, oat_C, mode,
\* sel_temp_C>> and calls through the dispatcher
ConcRequests ==
    { [ kind |-> "compute_takeoff_n1", aircraft |-> "A220-300", info |-> None,
        args |-> << R(500), R(12), "TO1", None >> ],
      [ kind |-> "compute_takeoff_n1", aircraft |-> "A220-300", info |-> None,
        args |-> << R(500), R(12), "FLEX", R(47) >> ],
      [ kind |-> "compute_takeoff_n1", aircraft |-> "B777-200ER", info |-> None,
        args |-> << R(2500), R(33), "D-TO2", None >> ],
      [ kind |-> "compute_takeoff_n1", aircraft |-> "B777-200ER", info |-> None,
        args |-> << R(0), R(10), "FLEX", R(47) >> ],
      [ kind |-> "compute_takeoff_n1", aircraft |-> "A380-800", info |-> None,
        args |-> << R(13000), R(33), "MAX", None >> ],
      [ kind |-> "compute_takeoff_n1", aircraft |-> "A380-800", info |-> None,
        args |-> << R(1000), R(7), "TO1", R(0) >> ],
      [ kind |-> "compute_takeoff_from_info", aircraft |-> "B777-200ER",
        info |-> [ pressure_alt_ft |-> R(1500), elevation_ft |-> Absent,
                   oat_C |-> R(12), mode_raw |-> "FLEX",
                   mode_normalized |-> "FLEX", sel_temp_C |-> R(47) ],
        args |-> << None, None, "", None >> ],
      [ kind |-> "compute_takeoff_from_info", aircraft |-> "A220-300",
        info |-> [ pressure_alt_ft |-> None, elevation_ft |-> R(3000),
                   oat_C |-> R(12), mode_raw |-> "D-TO2",
                   mode_normalized |-> "TO2", sel_temp_C |-> None ],
        args |-> << None, None, "", None >> ] }

\* faulty variant: the locals are module-level names shared by all calls
frame_of_shared(t) == 1

\* the frame holding the locals of thread t's call
frame_of(t) == t

\* n1_a223 / n1_772 / n1_a380_mto reading the module-level names tabs
n1_of_module(tabs, ac, m, A_ft, T_c) ==
    LET mode_up == upper(IF truthy_str(m) THEN m ELSE "")
    IN  CASE ac = "A220-300" ->
               Bilinear(IF contains(mode_up, "TO2") THEN tabs.N1_ROWS_A223_TO2
                        ELSE IF contains(mode_up, "TO1") THEN tabs.N1_ROWS_A223_TO1
                        ELSE tabs.N1_ROWS_A223_MAX,
                        tabs.TEMP_ROWS_C_A223, tabs.ALT_COLS_FT_A223, A_ft, T_c)
          [] ac = "B777-200ER" ->
               apply_derate_from_max(
                   Bilinear(tabs.N1_ROWS_777_MAX, tabs.TEMP_ROWS_C_772,
                            tabs.ALT_COLS_FT_772, A_ft, T_c), m)
          [] ac = "A380-800" ->
               Bilinear(tabs.N1_A380_MTO, tabs.TEMP_ROWS_C_A380,
                        tabs.ALT_COLS_FT_A380, A_ft, T_c)

InitConc ==
    /\ call = "threads"
    /\ pc = ""
    /\ axis = << >>
    /\ x = None
    /\ loc = None
    /\ aircraft = ""
    /\ mode = ""
    /\ pressure_alt_ft = None
    /\ oat_C = None
    /\ sel_temp_C = None
    /\ mode_for_tables = ""
    /\ temp_for_calc = None
    /\ n1 = None
    /\ slider = None
    /\ info = None
    /\ flex_active = FALSE
    /\ raised = ""
    /\ result = None
    /\ tables = ModuleTables
    /\ \E req \in [ Threads -> ConcRequests ] :
          threads = [ t \in Threads |->
                        [ pc |-> IF req[t].kind = "compute_takeoff_from_info"
                                 THEN "call" ELSE "entry",
                          kind |-> req[t].kind,
                          aircraft |-> req[t].aircraft,
                          info |-> req[t].info,
                          args |-> req[t].args,
                          ret |-> None ] ]
    /\ frames = [ f \in Threads |->
                    [ mode_for_tables |-> "", temp_for_calc |-> None,
                      n1 |-> None, slider |-> None ] ]

\* compute_takeoff_from_info up to the call of the aircraft function
TDispatch(t) ==
    /\ threads[t].pc = "call"
    /\ \E o \in { compute_takeoff_from_info(threads[t].info, threads[t].aircraft) } :
          threads' = [ threads EXCEPT ![t].args = o.args,
                                      ![t].pc = IF o.raised = "" THEN "entry"
                                                ELSE "raised" ]
    /\ UNCHANGED << tables, frames >>
    /\ UNCHANGED seq_vars

\* compute_takeoff_n1: mode_for_tables and temp_for_calc
TEntry(t) ==
    /\ threads[t].pc = "entry"
    /\ LET a == threads[t].args
           e == CASE threads[t].aircraft = "A220-300"   -> entry_a223(a[3], a[2], a[4])
                  [] threads[t].aircraft = "B777-200ER" -> entry_772(a[3], a[2], a[4])
                  [] threads[t].aircraft = "A380-800"   -> entry_a380(a[3], a[2], a[4])
       IN  frames' = [ frames EXCEPT ![frame_of(t)].mode_for_tables = e[1],
                                     ![frame_of(t)].temp_for_calc = e[2] ]
    /\ threads' = [ threads EXCEPT ![t].pc = "core" ]
    /\ UNCHANGED tables
    /\ UNCHANGED seq_vars

\* n1_and_slider_*: n1 from the tables
TCore(t) ==
    /\ threads[t].pc = "core"
    /\ frames' = [ frames EXCEPT ![frame_of(t)].n1 =
                     n1_of_module(tables, threads[t].aircraft,
                                  frames[frame_of(t)].mode_for_tables,
                                  threads[t].args[1],
                                  frames[frame_of(t)].temp_for_calc) ]
    /\ threads' = [ threads EXCEPT ![t].pc = "slider" ]
    /\ UNCHANGED tables
    /\ UNCHANGED seq_vars

\* n1_and_slider_*: slider from n1
TSlider(t) ==
    /\ threads[t].pc = "slider"
    /\ frames' = [ frames EXCEPT ![frame_of(t)].slider =
                     CASE threads[t].aircraft = "A220-300" ->
                            slider_from_n1_a223(frames[frame_of(t)].n1)
                       [] threads[t].aircraft = "B777-200ER" ->
                            slider_from_n1_772(frames[frame_of(t)].n1)
                       [] threads[t].aircraft = "A380-800" ->
                            slider_from_n1_a380(frames[frame_of(t)].n1) ]
    /\ threads' = [ threads EXCEPT ![t].pc = "return" ]
    /\ UNCHANGED tables
    /\ UNCHANGED seq_vars

\* return n1, slider
TReturn(t) ==
    /\ threads[t].pc = "return"
    /\ threads' = [ threads EXCEPT
                      ![t].ret = << frames[frame_of(t)].n1,
                                    frames[frame_of(t)].slider >>,
                      ![t].pc = "done" ]
    /\ UNCHANGED << tables, frames >>
    /\ UNCHANGED seq_vars

NextConc ==
    \E t \in Threads :
        \/ TDispatch(t)
        \/ TEntry(t)
        \/ TCore(t)
        \/ TSlider(t)
        \/ TReturn(t)

SpecConc == InitConc /\ [][NextConc]_vars

-----------------------------------------------------------------------------
(* What the properties below read off a finished compute_takeoff_n1 call.  *)

Done == call = "compute_takeoff_n1" /\ pc = "done"

LocateDone == call = "locate" /\ pc = "done"

\* the table the call interpolates in
TableInUse ==
    CASE aircraft = "A220-300" ->
           IF mode_for_tables \in { "TO2", "D-TO2" } THEN N1_ROWS_A223_TO2
           ELSE IF mode_for_tables \in { "TO1", "D-TO1" } THEN N1_ROWS_A223_TO1
           ELSE N1_ROWS_A223_MAX
      [] aircraft = "B777-200ER" -> N1_ROWS_777_MAX
      [] aircraft = "A380-800" -> N1_A380_MTO

\* the call scales the table value by a derate factor below 1
Derated ==
    aircraft = "B777-200ER" /\ mode_for_tables \in { "TO1", "D-TO1", "TO2", "D-TO2" }

\* the four corner cells of the call's query point
Q == Corners(TableInUse, locate(TempAxisOf(aircraft), temp_for_calc),
             locate(AltAxisOf(aircraft), pressure_alt_ft))

AllUndefined == LET q == Q IN \A i \in 1..4 : isnan(q[i])

SomeUndefined == LET q == Q IN \E i \in 1..4 : isnan(q[i])

\* the brackets of the query point, read off the axes directly
TLo == CHOOSE i \in 1 .. Len(TempAxisOf(aircraft)) :
          /\ \/ i = 1
             \/ FLe(R(TempAxisOf(aircraft)[i]), temp_for_calc)
          /\ \/ i = Len(TempAxisOf(aircraft))
             \/ FLt(temp_for_calc, R(TempAxisOf(aircraft)[i + 1]))

ALo == CHOOSE j \in 1 .. Len(AltAxisOf(aircraft)) :
          /\ \/ j = 1
             \/ FLe(R(AltAxisOf(aircraft)[j]), pressure_alt_ft)
          /\ \/ j = Len(AltAxisOf(aircraft))
             \/ FLt(pressure_alt_ft, R(AltAxisOf(aircraft)[j + 1]))

TInside ==
    /\ FLt(R(TempAxisOf(aircraft)[1]), temp_for_calc)
    /\ FLt(temp_for_calc, R(TempAxisOf(aircraft)[Len(TempAxisOf(aircraft))]))

AInside ==
    /\ FLt(R(AltAxisOf(aircraft)[1]), pressure_alt_ft)
    /\ FLt(pressure_alt_ft, R(AltAxisOf(aircraft)[Len(AltAxisOf(aircraft))]))

TOut == ~TInside /\ temp_for_calc # R(TempAxisOf(aircraft)[TLo])

AOut == ~AInside /\ pressure_alt_ft # R(AltAxisOf(aircraft)[ALo])

\* the query point is the grid point of cell (TLo, ALo)
OnGrid ==
    /\ temp_for_calc = R(TempAxisOf(aircraft)[TLo])
    /\ pressure_alt_ft = R(AltAxisOf(aircraft)[ALo])

GridCell == Cell(TableInUse, TempAxisOf(aircraft)[TLo], ALo - 1)

-----------------------------------------------------------------------------
\* C1: whenever all four corner cells selected by the two locate calls are
\* undefined, the N1 the call returns is undefined; also for a query on grid
\* values and for degenerate brackets.
C1_AllUndefinedGivesUndefined ==
    (Done /\ AllUndefined) => isnan(n1)

\* a finished call on a grid point, both brackets degenerate, its cell undefined
C1_Witness ==
    /\ Done /\ AllUndefined /\ OnGrid
    /\ ~TInside /\ ~AInside
    /\ isnan(n1)

\* C2: a query exactly at the grid point of a defined cell returns exactly
\* that cell's value (calls without derate scaling).
C2_ExactMatch ==
    (Done /\ ~Derated /\ OnGrid /\ ~isnan(GridCell)) => n1 = GridCell

\* C3 as stated: with some but not all corner cells undefined the returned
\* N1 is a number.
C3_PartialGivesNumber ==
    (Done /\ SomeUndefined /\ ~AllUndefined) => ~isnan(n1)

\* C3 amended: with some but not all corner cells undefined the returned N1
\* is undefined.
C3_PartialGivesUndefined ==
    (Done /\ SomeUndefined /\ ~AllUndefined) => isnan(n1)

\* a finished call with exactly one undefined corner among four distinct ones
C3_Witness ==
    /\ Done /\ TInside /\ AInside
    /\ LET q == Q IN Cardinality({ i \in 1..4 : isnan(q[i]) }) = 1
    /\ isnan(n1)

\* C4: an undefined corner cell makes the returned N1 undefined, and neither
\* the derate scaling nor the slider clamp makes a number of it.
C4_UndefinedNeverBecomesNumber ==
    (Done /\ SomeUndefined) => (isnan(n1) /\ isnan(slider))

\* a finished derated B777 call with an undefined and a defined corner
C4_Witness ==
    /\ Done /\ Derated /\ SomeUndefined /\ ~AllUndefined
    /\ isnan(n1) /\ isnan(slider)

\* C5: in every mode, an undefined full-rated lookup gives an undefined N1
\* from n1_772.
C5_DeratePropagatesUndefined ==
    (Done /\ aircraft = "B777-200ER"
          /\ isnan(n1_772_max(pressure_alt_ft, temp_for_calc)))
        => isnan(n1)

\* a finished TO2 call of the B777 whose full-rated lookup is undefined
C5_Witness ==
    /\ Done /\ aircraft = "B777-200ER" /\ mode_for_tables = "D-TO2"
    /\ isnan(n1_772_max(pressure_alt_ft, temp_for_calc))
    /\ isnan(n1)

\* C6: the entry point returns N1 and slider together, the slider is the
\* aircraft's slider mapping of the returned (post-derate) N1, and it is
\* undefined exactly when the N1 is.
C6_PairConsistent ==
    /\ call = "compute_takeoff_n1" => ((n1 = None) <=> (slider = None))
    /\ Done =>
         /\ n1 # None /\ slider # None
         /\ slider = CASE aircraft = "A220-300"   -> slider_from_n1_a223(n1)
                       [] aircraft = "B777-200ER" -> slider_from_n1_772(n1)
                       [] aircraft = "A380-800"   -> slider_from_n1_a380(n1)
         /\ isnan(slider) <=> isnan(n1)

\* a finished derated B777 call with a defined N1 and a defined slider
C6_Witness ==
    Done /\ Derated /\ ~isnan(n1) /\ ~isnan(slider)

\* C7: a query at or below the first axis element gets the degenerate
\* bracket of the first element, one at or above the last element that of
\* the last element.
C7_LocateClamps ==
    LocateDone =>
        /\ FLe(x, R(axis[1])) => loc = << 0, 0, axis[1], axis[1] >>
        /\ FGe(x, R(axis[Len(axis)])) =>
             loc = << Len(axis) - 1, Len(axis) - 1, axis[Len(axis)], axis[Len(axis)] >>

\* locate has returned for a query exactly on the first of several elements
C7_Witness ==
    /\ LocateDone /\ Len(axis) >= 2 /\ x = R(axis[1])
    /\ loc = << 0, 0, axis[1], axis[1] >>

\* C8: a query strictly inside the axis gets adjacent indices with
\* axis[i0] <= x < axis[i1], i1 the first element above x, and their axis
\* values; the bracket is degenerate only at or beyond the ends.
C8_LocateInterior ==
    LocateDone =>
        /\ (FLt(R(axis[1]), x) /\ FLt(x, R(axis[Len(axis)]))) =>
             /\ loc[2] = loc[1] + 1
             /\ loc[1] \in 0 .. (Len(axis) - 2)
             /\ FLe(R(axis[loc[1] + 1]), x) /\ FLt(x, R(axis[loc[2] + 1]))
             /\ \A k \in 1 .. Len(axis) : FLt(x, R(axis[k])) => k >= loc[2] + 1
             /\ loc[3] = axis[loc[1] + 1]
             /\ loc[4] = axis[loc[2] + 1]
        /\ loc[1] = loc[2] => (FLe(x, R(axis[1])) \/ FGe(x, R(axis[Len(axis)])))

\* locate has returned for a query exactly on an inner axis element
C8_Witness ==
    /\ LocateDone /\ FLt(R(axis[1]), x) /\ FLt(x, R(axis[Len(axis)]))
    /\ x = R(axis[loc[1] + 1])
    /\ loc[2] = loc[1] + 1

\* y0 + (y1 - y0) * (xq - x0) / (x1 - x0), for x0 # x1
Lerp(y0, y1, xq, x0, x1) ==
    FAdd(y0, FMul(FSub(y1, y0), FDiv(FSub(xq, x0), FSub(x1, x0))))

\* cell of TableInUse at 1-based axis positions (i, j)
CellAt(i, j) == Cell(TableInUse, TempAxisOf(aircraft)[i], j - 1)

TAt(i) == R(TempAxisOf(aircraft)[i])

AAt(j) == R(AltAxisOf(aircraft)[j])

\* the example table of the specification
ExampleTemp == << 0, 10 >>

ExampleAlt == << 0, 1000 >>

ExampleRows == 0 :> << 800, 820 >> @@ 10 :> << 830, 850 >>

\* the interpolator on the example table at (500 ft, 5 C) and (-500 ft, 5 C)
ExampleInside == Bilinear(ExampleRows, ExampleTemp, ExampleAlt, R(500), R(5))

ExampleBelow == Bilinear(ExampleRows, ExampleTemp, ExampleAlt, R(-500), R(5))

\* C9: strictly inside both axes with four defined corners, the result is
\* the interpolation along temperature of the two interpolations along
\* altitude; the example table gives 82.5 at (500 ft, 5 C).
C9_GeneralBilinear ==
    /\ (Done /\ ~Derated /\ TInside /\ AInside /\ ~SomeUndefined) =>
         LET i == TLo
             j == ALo
         IN  n1 = Lerp(Lerp(CellAt(i, j), CellAt(i, j + 1),
                            pressure_alt_ft, AAt(j), AAt(j + 1)),
                       Lerp(CellAt(i + 1, j), CellAt(i + 1, j + 1),
                            pressure_alt_ft, AAt(j), AAt(j + 1)),
                       temp_for_calc, TAt(i), TAt(i + 1))
    /\ ExampleInside = Rat(825, 10)

\* a finished call strictly between grid lines on both axes, four defined
\* corners
C9_Witness ==
    /\ Done /\ ~Derated /\ TInside /\ AInside /\ ~SomeUndefined
    /\ temp_for_calc # TAt(TLo) /\ pressure_alt_ft # AAt(ALo)
    /\ ~isnan(n1)

\* C10: an altitude outside the axis gives the N1 of the end axis value at
\* the same temperature, the interpolation along temperature of the two
\* cells of the end column; symmetrically for temperature; the example table
\* gives 81.5 at (-500 ft, 5 C).
C10_OutOfRangeClamps ==
    /\ (Done /\ ~Derated) =>
         LET i == TLo
             j == ALo
         IN  /\ AOut =>
                  n1 = Bilinear(TableInUse, TempAxisOf(aircraft), AltAxisOf(aircraft),
                                AAt(j), temp_for_calc)
             /\ (AOut /\ TInside) =>
                  n1 = Lerp(CellAt(i, j), CellAt(i + 1, j),
                            temp_for_calc, TAt(i), TAt(i + 1))
             /\ TOut =>
                  n1 = Bilinear(TableInUse, TempAxisOf(aircraft), AltAxisOf(aircraft),
                                pressure_alt_ft, TAt(i))
             /\ (TOut /\ AInside) =>
                  n1 = Lerp(CellAt(i, j), CellAt(i, j + 1),
                            pressure_alt_ft, AAt(j), AAt(j + 1))
    /\ ExampleBelow = Rat(815, 10)

\* a finished call below the altitude axis, strictly between two
\* temperature grid lines, both cells of the end column defined
C10_Witness ==
    /\ Done /\ ~Derated /\ AOut /\ ALo = 1 /\ TInside /\ ~SomeUndefined
    /\ temp_for_calc # TAt(TLo)
    /\ ~isnan(n1)

-----------------------------------------------------------------------------
\* C11: with four defined corner cells the interpolated N1 is at least the
\* smallest and at most the largest of them, inside and beyond the axes.
C11_WithinCorners ==
    (Done /\ ~Derated /\ ~SomeUndefined) =>
        LET q == Q
        IN  /\ \E i \in 1..4 : FLe(q[i], n1)
            /\ \E i \in 1..4 : FLe(n1, q[i])

\* a finished call beyond the end of the altitude axis and strictly between
\* two temperature grid lines whose N1 lies strictly between its smallest and
\* its largest corner
C11_Witness ==
    /\ Done /\ ~Derated /\ ~SomeUndefined /\ AOut /\ TInside
    /\ temp_for_calc # TAt(TLo)
    /\ LET q == Q
       IN  /\ \E i \in 1..4 : FLt(q[i], n1)
           /\ \E i \in 1..4 : FLt(n1, q[i])

-----------------------------------------------------------------------------
(* The slider mappings called on their own.                                *)

SliderDone == call = "slider_from_n1" /\ pc = "done"

\* the calibration pair the specification gives for each aircraft
N1AtSliderZero ==
    CASE aircraft = "A220-300"   -> R(20)
      [] aircraft = "B777-200ER" -> R(20)
      [] aircraft = "A380-800"   -> R(17)

N1AtSliderHundred ==
    CASE aircraft = "A220-300"   -> R(101)
      [] aircraft = "B777-200ER" -> R(107)
      [] aircraft = "A380-800"   -> R(111)

\* C12: each aircraft's slider mapping returns exactly 0 at its
\* n1_at_slider_zero and exactly 100 at its n1_at_slider_hundred.
C12_SliderEndPoints ==
    SliderDone =>
        /\ n1 = N1AtSliderZero => slider = R(0)
        /\ n1 = N1AtSliderHundred => slider = R(100)

\* the A220 mapping has returned 100 for an N1 of 101
C12_Witness ==
    /\ SliderDone /\ aircraft = "A220-300"
    /\ n1 = R(101) /\ slider = R(100)

\* C13: for a defined N1 the slider lies in [0, 100], is 0 at or below
\* n1_at_slider_zero and 100 at or above n1_at_slider_hundred; also for
\* n1_to_slider with its pair (20, 101).
C13_SliderClamp ==
    /\ (SliderDone /\ ~isnan(n1)) =>
         /\ FLe(R(0), slider) /\ FLe(slider, R(100))
         /\ FLe(n1, N1AtSliderZero) => slider = R(0)
         /\ FGe(n1, N1AtSliderHundred) => slider = R(100)
    /\ (call = "n1_to_slider" /\ pc = "done" /\ ~isnan(n1)) =>
         /\ FLe(R(0), slider) /\ FLe(slider, R(100))
         /\ FLe(n1, R(20)) => slider = R(0)
         /\ FGe(n1, R(101)) => slider = R(100)

\* the A380 mapping has returned 100 for an N1 above 111
C13_Witness ==
    /\ SliderDone /\ aircraft = "A380-800"
    /\ FGt(n1, R(111)) /\ slider = R(100)

\* the A220 mapping at the specification's example N1 of 60.5
ExampleSlider == slider_from_n1_a223(Rat(605, 10))

\* C14: for an N1 inside [lo, hi] of the aircraft's calibration the slider
\* is (N1 - lo) / (hi - lo) * 100; the A220 mapping gives 50.0 at 60.5.
C14_SliderAffine ==
    /\ (SliderDone /\ FLe(N1AtSliderZero, n1) /\ FLe(n1, N1AtSliderHundred)) =>
         slider = FMul(FDiv(FSub(n1, N1AtSliderZero),
                            FSub(N1AtSliderHundred, N1AtSliderZero)), R(100))
    /\ ExampleSlider = R(50)

\* the A220 mapping has returned 50 for an N1 of 60.5
C14_Witness ==
    /\ SliderDone /\ aircraft = "A220-300"
    /\ n1 = Rat(605, 10) /\ slider = R(50)

-----------------------------------------------------------------------------
(* Derates and the assumed temperature.                                    *)

\* C15: wherever the full-rated N1 of the B777 is defined, n1_772 with MAX is
\* at least n1_772 with TO1, which is at least n1_772 with TO2; the N1 the
\* call returns takes its mode's place in that order.
C15_DerateOrdering772 ==
    (Done /\ aircraft = "B777-200ER") =>
        LET base == n1_772_max(pressure_alt_ft, temp_for_calc)
            fmax == apply_derate_from_max(base, "MAX")
            fto1 == apply_derate_from_max(base, "TO1")
            fto2 == apply_derate_from_max(base, "TO2")
        IN  ~isnan(base) =>
              /\ FGe(fmax, fto1) /\ FGe(fto1, fto2)
              /\ mode_for_tables = "MAX" => FGe(n1, fto1)
              /\ mode_for_tables \in { "TO1", "D-TO1" } =>
                    (FLe(n1, fmax) /\ FGe(n1, fto2))
              /\ mode_for_tables \in { "TO2", "D-TO2" } => FLe(n1, fto1)

\* a finished TO1 call of the B777 whose N1 lies strictly between the TO2
\* and the MAX value of its query point
C15_Witness ==
    /\ Done /\ aircraft = "B777-200ER" /\ mode_for_tables = "TO1"
    /\ FLt(n1, n1_772(pressure_alt_ft, temp_for_calc, "MAX"))
    /\ FGt(n1, n1_772(pressure_alt_ft, temp_for_calc, "TO2"))

\* C16: wherever the three A220 values are defined, n1_a223 with MAX is at
\* least n1_a223 with TO1, which is at least n1_a223 with TO2.
C16_DerateOrderingA223 ==
    (Done /\ aircraft = "A220-300") =>
        LET fmax == n1_a223(pressure_alt_ft, temp_for_calc, "MAX")
            fto1 == n1_a223(pressure_alt_ft, temp_for_calc, "TO1")
            fto2 == n1_a223(pressure_alt_ft, temp_for_calc, "TO2")
        IN  (~isnan(fmax) /\ ~isnan(fto1) /\ ~isnan(fto2)) =>
              (FGe(fmax, fto1) /\ FGe(fto1, fto2))

\* C17: for a defined full-rated N1 f the B777 returns 20 + (f - 20) * 0.9
\* for TO1 / D-TO1, 20 + (f - 20) * 0.8 for TO2 / D-TO2 and f for MAX.
C17_DerateScaling ==
    (Done /\ aircraft = "B777-200ER") =>
        LET f == n1_772_max(pressure_alt_ft, temp_for_calc)
        IN  ~isnan(f) =>
              /\ mode_for_tables \in { "TO1", "D-TO1" } =>
                    n1 = FAdd(R(20), FMul(FSub(f, R(20)), Rat(9, 10)))
              /\ mode_for_tables \in { "TO2", "D-TO2" } =>
                    n1 = FAdd(R(20), FMul(FSub(f, R(20)), Rat(8, 10)))
              /\ mode_for_tables = "MAX" => n1 = f

\* a finished D-TO2 call of the B777 with a defined N1
C17_Witness ==
    /\ Done /\ aircraft = "B777-200ER" /\ mode = "D-TO2"
    /\ ~isnan(n1)
    /\ FLt(n1, n1_772_max(pressure_alt_ft, temp_for_calc))

\* C18: a FLEX call of the A220 or the B777 with an assumed temperature
\* (0 and values below the OAT included) returns the full-rated table value
\* at (pressure altitude, assumed temperature).
C18_FlexSubstitution ==
    (Done /\ upper(mode) = "FLEX" /\ sel_temp_C # None) =>
        /\ aircraft = "A220-300" => n1 = n1_a223_max(pressure_alt_ft, sel_temp_C)
        /\ aircraft = "B777-200ER" => n1 = n1_772_max(pressure_alt_ft, sel_temp_C)

-----------------------------------------------------------------------------
(* The A380 and the dispatcher.                                            *)

DispatchDone == call = "compute_takeoff_from_info" /\ pc = "done"

\* C19: for the A380 the returned pair is the MTO table value, and its
\* slider, at (pressure altitude, OAT), whatever mode and assumed
\* temperature were requested, through a388N1.compute_takeoff_n1 and
\* through compute_takeoff_from_info.
C19_A380AlwaysFullRated ==
    /\ (Done /\ aircraft = "A380-800") =>
         LET f == n1_a380_mto(pressure_alt_ft, oat_C)
         IN  n1 = f /\ slider = slider_from_n1_a380(f)
    /\ (DispatchDone /\ aircraft = "A380-800" /\ raised = "") =>
         LET alt == IF info.pressure_alt_ft \notin { Absent, None }
                    THEN info.pressure_alt_ft
                    ELSE IF info.elevation_ft = Absent THEN R(0)
                    ELSE info.elevation_ft
             f   == n1_a380_mto(alt, info.oat_C)
         IN  /\ result.N1_percent = f
             /\ result.IF_slider_percent = slider_from_n1_a380(f)

\* a388N1.compute_takeoff_n1 has returned a defined N1 for a FLEX request
\* with an assumed temperature other than the OAT
C19_Witness ==
    /\ Done /\ aircraft = "A380-800" /\ mode = "FLEX"
    /\ sel_temp_C # None /\ sel_temp_C # oat_C
    /\ ~isnan(n1)
    /\ n1 # n1_a380_mto(pressure_alt_ft, sel_temp_C)

\* compute_takeoff_from_info has returned a defined N1 for an A380 FLEX
\* request with an active assumed temperature
C19_WitnessDispatch ==
    /\ DispatchDone /\ aircraft = "A380-800" /\ raised = ""
    /\ info.mode_normalized = "FLEX" /\ info.sel_temp_C # None
    /\ result.flex_active
    /\ ~isnan(result.N1_percent)

\* C20: for an aircraft key outside {B737 MAX 8, B777-200ER, A220-300,
\* A380-800}, B777-300ER included, compute_takeoff_from_info raises
\* ValueError, returns nothing and calls no aircraft function.
C20_UnsupportedAircraftRaises ==
    (DispatchDone /\ aircraft \notin { "B737 MAX 8", "B777-200ER", "A220-300",
                                       "A380-800" }) =>
        /\ raised = "ValueError"
        /\ result = None
        /\ n1 = None /\ slider = None

\* compute_takeoff_from_info has raised ValueError for B777-300ER
C20_Witness ==
    /\ DispatchDone /\ aircraft = "B777-300ER"
    /\ raised = "ValueError" /\ result = None

-----------------------------------------------------------------------------
(* Unknown modes.                                                          *)

\* the mode argument is none of the full-rated, derate and assumed
\* temperature identifiers (an empty mode is the default, MAX)
UnknownMode ==
    upper(mode) \notin { "", "MAX", "TO1", "TO2", "D-TO1", "D-TO2", "FLEX" }

\* the full-rated table value of the call's aircraft at (altitude, OAT)
FullRatedAtOat ==
    CASE aircraft = "A220-300"   -> n1_a223_max(pressure_alt_ft, oat_C)
      [] aircraft = "B777-200ER" -> n1_772_max(pressure_alt_ft, oat_C)
      [] aircraft = "A380-800"   -> n1_a380_mto(pressure_alt_ft, oat_C)

-----------------------------------------------------------------------------
(* Concurrent calls.                                                       *)

\* the pair thread t's call returns when it runs alone
Alone(t) ==
    LET r == IF threads[t].kind = "compute_takeoff_from_info"
             THEN compute_takeoff_from_info(threads[t].info, threads[t].aircraft).ret
             ELSE call_n1_func(n1_func(threads[t].aircraft),
                               threads[t].args[1], threads[t].args[2],
                               threads[t].args[3], threads[t].args[4])
    IN  \E v \in { r } : threads[t].ret = << v[3], v[4] >>

\* C22: under every interleaving of the concurrent calls each finished call
\* has returned the pair it returns when run alone, and the axes and tables
\* are at every moment what they were after import.
C22_Independent ==
    /\ tables = ModuleTables
    /\ \A t \in DOMAIN threads : threads[t].pc = "done" => Alone(t)

\* two calls with different requests are in flight at once, their frames
\* holding different temperatures, while thread 1 has computed its N1
C22_InFlight ==
    /\ call = "threads"
    /\ threads[1].pc = "slider" /\ threads[2].pc = "core"
    /\ frames[1].temp_for_calc # frames[2].temp_for_calc

\* all concurrent calls have returned, thread 1 and thread 2 different pairs
C22_Witness ==
    /\ call = "threads"
    /\ \A t \in Threads : threads[t].pc = "done"
    /\ threads[1].ret # threads[2].ret
    /\ ~isnan(threads[1].ret[1]) /\ isnan(threads[2].ret[1])

-----------------------------------------------------------------------------
(* The tables.                                                             *)

\* both axes strictly increasing, the row keys exactly the temperature axis
\* values, every row as long as the altitude axis
WellFormed(temp_axis, alt_axis, rows) ==
    /\ \A i \in 1 .. (Len(temp_axis) - 1) : temp_axis[i] < temp_axis[i + 1]
    /\ \A j \in 1 .. (Len(alt_axis) - 1) : alt_axis[j] < alt_axis[j + 1]
    /\ DOMAIN rows = { temp_axis[i] : i \in 1 .. Len(temp_axis) }
    /\ \A T \in DOMAIN rows : Len(rows[T]) = Len(alt_axis)

\* C23: each of the five tables is well-formed over its aircraft's axes, at
\* every moment of every call.
C23_TablesWellFormed ==
    /\ WellFormed(tables.TEMP_ROWS_C_A223, tables.ALT_COLS_FT_A223,
                  tables.N1_ROWS_A223_MAX)
    /\ WellFormed(tables.TEMP_ROWS_C_A223, tables.ALT_COLS_FT_A223,
                  tables.N1_ROWS_A223_TO1)
    /\ WellFormed(tables.TEMP_ROWS_C_A223, tables.ALT_COLS_FT_A223,
                  tables.N1_ROWS_A223_TO2)
    /\ WellFormed(tables.TEMP_ROWS_C_772, tables.ALT_COLS_FT_772,
                  tables.N1_ROWS_777_MAX)
    /\ WellFormed(tables.TEMP_ROWS_C_A380, tables.ALT_COLS_FT_A380,
                  tables.N1_A380_MTO)

\* an A220 TO2 call has returned the last entry of the row keyed 35
C23_Witness ==
    /\ Done /\ aircraft = "A220-300" /\ mode_for_tables = "TO2"
    /\ temp_for_calc = R(35) /\ pressure_alt_ft = R(14500)
    /\ Len(tables.N1_ROWS_A223_TO2[35]) = Len(tables.ALT_COLS_FT_A223)
    /\ n1 = Rat(830, 10)

-----------------------------------------------------------------------------
\* the brackets the finished call's two _locate calls returned
LT == locate(TempAxisOf(aircraft), temp_for_calc)

LA == locate(AltAxisOf(aircraft), pressure_alt_ft)

\* C24: for every recognized aircraft and every altitude and temperature
\* (negative, beyond either end of an axis, or equal to an axis value) the
\* call completes and returns a pair; every row key and column index it
\* uses exists in the table and no interpolation divides by zero.
C24_CoreNeverFails ==
    Done =>
        /\ raised = ""
        /\ n1 # None /\ slider # None
        /\ \A T \in { LT[3], LT[4] } :
               /\ T \in DOMAIN TableInUse
               /\ \A c \in { LA[1], LA[2] } : c \in 0 .. (Len(TableInUse[T]) - 1)
        /\ R(0) \notin Interpolate_divisors(LT, LA)

\* a B777-200ER call below the altitude axis (a negative altitude) and
\* above the temperature axis has returned a defined pair
C24_Witness ==
    /\ Done /\ aircraft = "B777-200ER" /\ raised = ""
    /\ pressure_alt_ft = R(-2001) /\ temp_for_calc = R(61)
    /\ LT[1] = LT[2] /\ LA[1] = LA[2]
    /\ ~isnan(n1) /\ ~isnan(slider)

\* an A220-300 call on an altitude axis value, between two temperature
\* rows, has divided by the width of both brackets
C24_WitnessOnAxis ==
    /\ Done /\ aircraft = "A220-300" /\ raised = ""
    /\ pressure_alt_ft = R(0) /\ LT[1] # LT[2]
    /\ Cardinality(Interpolate_divisors(LT, LA)) = 2
    /\ ~isnan(n1)

-----------------------------------------------------------------------------
\* an info value that is neither an absent key nor None
Available(v) == v \notin { Absent, None }

\* C25: the altitude compute_takeoff_from_info passes to the aircraft
\* function is info's pressure_alt_ft when available, otherwise its
\* elevation_ft, and 0.0 when neither is available (absent or None); the
\* aircraft function is never called with a None altitude.
C25_AltitudeFallback ==
    (DispatchDone /\ aircraft \in SUPPORTED_AIRCRAFT) =>
        /\ pressure_alt_ft =
               IF Available(info.pressure_alt_ft) THEN info.pressure_alt_ft
               ELSE IF Available(info.elevation_ft) THEN info.elevation_ft
               ELSE R(0)
        /\ pressure_alt_ft # None
        /\ raised = ""

-----------------------------------------------------------------------------
\* the request is one where the assumed temperature may matter
FlexCase ==
    /\ aircraft # "A380-800"
    /\ info.mode_normalized = "FLEX"
    /\ is_flex_active(get(info.oat_C), get(info.sel_temp_C), info.mode_raw)

\* the pair of the same request with sel_temp_C absent
WithoutSelTemp ==
    LET o == compute_takeoff_from_info([info EXCEPT !.sel_temp_C = Absent], aircraft)
    IN  << o.ret[3], o.ret[4] >>

\* C26: in compute_takeoff_from_info the N1 and slider depend on
\* sel_temp_C only for an aircraft other than the A380-800 with
\* mode_normalized FLEX and is_flex_active true; in every other case the
\* result is that of the same request with sel_temp_C absent, also when
\* the returned flex_active is true.
C26_SelTempOnlyInFlex ==
    (DispatchDone /\ raised = "" /\ ~FlexCase) =>
        /\ << result.N1_percent, result.IF_slider_percent >> = WithoutSelTemp
        /\ temp_for_calc = get(info.oat_C)

\* a B777-200ER TO1 request with an assumed temperature of 47 C at an OAT of
\* 12 C has returned flex_active true and the derated N1 at the OAT
C26_Witness ==
    /\ DispatchDone /\ raised = "" /\ aircraft = "B777-200ER"
    /\ info.mode_normalized = "TO1" /\ info.sel_temp_C = R(47)
    /\ info.oat_C = R(12) /\ result.flex_active
    /\ ~isnan(result.N1_percent)
    /\ result.N1_percent = n1_772(pressure_alt_ft, R(12), "TO1")
    /\ result.N1_percent # n1_772(pressure_alt_ft, R(47), "TO1")

-----------------------------------------------------------------------------
\* C27: for the A220-300 and the B777-200ER, at any altitude, a FLEX
\* computation with an assumed temperature above the OAT yields an N1 lower
\* than or equal to the full-rated N1 at the OAT, whenever both are defined.
C27_FlexReducesThrust ==
    (/\ Done /\ aircraft \in { "A220-300", "B777-200ER" }
     /\ upper(mode) = "FLEX" /\ sel_temp_C # None /\ FGt(sel_temp_C, oat_C)
     /\ ~isnan(n1) /\ ~isnan(FullRatedAtOat))
        => FLe(n1, FullRatedAtOat)

-----------------------------------------------------------------------------
\* the table the stated rule selects for the mode n1_a223 receives
SelectedA223 ==
    IF mode_for_tables \in { "TO2", "D-TO2" } THEN N1_ROWS_A223_TO2
    ELSE IF mode_for_tables \in { "TO1", "D-TO1" } THEN N1_ROWS_A223_TO1
    ELSE N1_ROWS_A223_MAX

\* C28: n1_a223 uses the TO2 table when the upper-cased mode contains TO2,
\* otherwise the TO1 table when it contains TO1, otherwise the MAX table,
\* and in all three cases the result is the one interpolation procedure
\* applied to the selected table with the shared axes.
C28_ModeSelectsTable ==
    (Done /\ aircraft = "A220-300") =>
        n1 = Bilinear(SelectedA223, TEMP_ROWS_C_A223, ALT_COLS_FT_A223,
                      pressure_alt_ft, temp_for_calc)

\* an A220-300 call for D-TO2 has returned the TO2 table's value where the
\* three tables differ
C28_Witness ==
    /\ Done /\ aircraft = "A220-300" /\ mode = "D-TO2"
    /\ ~isnan(n1)
    /\ n1 = n1_a223_to2(pressure_alt_ft, oat_C)
    /\ n1 # n1_a223_to1(pressure_alt_ft, oat_C)
    /\ n1 # n1_a223_max(pressure_alt_ft, oat_C)
    /\ n1_a223_to1(pressure_alt_ft, oat_C) # n1_a223_max(pressure_alt_ft, oat_C)

\* an A220-300 call for TO1 has returned the TO1 table's value
C28_WitnessTO1 ==
    /\ Done /\ aircraft = "A220-300" /\ mode = "TO1"
    /\ ~isnan(n1)
    /\ n1 = n1_a223_to1(pressure_alt_ft, oat_C)
    /\ n1 # n1_a223_to2(pressure_alt_ft, oat_C)
    /\ n1 # n1_a223_max(pressure_alt_ft, oat_C)

-----------------------------------------------------------------------------
\* C29: for every aircraft, every mode (the B777-200ER TO1/TO2 scaling
\* included) and every query, a defined returned N1 lies strictly between
\* the aircraft's n1_at_slider_zero and n1_at_slider_hundred, so the
\* returned slider is strictly between 0 and 100 and is the unclamped affine
\* value.
C29_TableN1InsideCalibration ==
    (Done /\ ~isnan(n1)) =>
        /\ FLt(N1AtSliderZero, n1) /\ FLt(n1, N1AtSliderHundred)
        /\ FLt(R(0), slider) /\ FLt(slider, R(100))
        /\ slider = FMul(FDiv(FSub(n1, N1AtSliderZero),
                              FSub(N1AtSliderHundred, N1AtSliderZero)), R(100))

\* a B777-200ER TO2 call has returned the scaled N1 of the lowest cell of
\* the full-rated table, 86.7 at -2000 ft / -50 C
C29_Witness ==
    /\ Done /\ aircraft = "B777-200ER" /\ mode = "TO2"
    /\ n1_772_max(pressure_alt_ft, oat_C) = Rat(867, 10)
    /\ ~isnan(n1) /\ FLt(n1, Rat(867, 10))
    /\ FLt(R(0), slider)

\* a B777-200ER full-rated call has returned the highest cell of the table,
\* 105.6
C29_WitnessHigh ==
    /\ Done /\ aircraft = "B777-200ER" /\ n1 = Rat(1056, 10)
    /\ FLt(slider, R(100))

-----------------------------------------------------------------------------
BilinearDone == call = "bilinear" /\ pc = "done"

\* what the module's own _bilinear returns for the finished call's table and
\* query
PerAircraft ==
    Bilinear(TableInUse, TempAxisOf(aircraft), AltAxisOf(aircraft),
             pressure_alt_ft, temp_for_calc)

C30_WitnessNumber ==
    /\ BilinearDone /\ aircraft = "A220-300" /\ ~SomeUndefined
    /\ LT[1] # LT[2] /\ temp_for_calc # R(LT[3])
    /\ LA[1] # LA[2] /\ pressure_alt_ft # R(LA[3])
    /\ ~isnan(n1) /\ n1 = PerAircraft
    /\ n1 \notin { Q[1], Q[2], Q[3], Q[4] }

====
